---- MODULE Spec2Model ----
(***************************************************************************)
(* Model of the streaming reassembler of anthropic-proxy-rs                *)
(* (src/src/proxy.rs, create_sse_stream) and of the translators of         *)
(* src/src/transform.rs.                                                   *)
(*                                                                         *)
(* Conventions.  A Rust String is a sequence of one-character strings, so  *)
(* that is_empty and push_str are Len and \o.  An Option<T> is a sequence  *)
(* of length at most one: None is << >> and Some(v) is <<v>>.  Identifiers *)
(* that the code only copies (message id, model, tool-call id, function    *)
(* name, finish reason) are TLA+ strings.                                  *)
(***************************************************************************)
EXTENDS Integers, Sequences, FiniteSets, TLC

VARIABLES
    buffer,                  \* proxy.rs:146  let mut buffer = String::new()
    message_id,              \* proxy.rs:147
    current_model,           \* proxy.rs:148
    content_index,           \* proxy.rs:149
    tool_call_id,            \* proxy.rs:150
    tool_call_name,          \* proxy.rs:151  (_tool_call_name)
    tool_call_args,          \* proxy.rs:152
    has_sent_message_start,  \* proxy.rs:153
    current_block_type,      \* proxy.rs:154
    events,                  \* the items the generator has yielded, in order
    running,                 \* TRUE while the generator is inside its while loop
    frames,                  \* history: the upstream items consumed so far
    wire,                    \* the upstream byte string of a byte-level session
    pos,                     \* how many bytes of wire have been read
    session_b,               \* a second, concurrent call of create_sse_stream
    call                     \* the last call of a function of transform.rs

vars == <<buffer, message_id, current_model, content_index, tool_call_id,
          tool_call_name, tool_call_args, has_sent_message_start,
          current_block_type, events, running, frames, wire, pos,
          session_b, call>>

----------------------------------------------------------------------------
(* Options and small helpers                                               *)

None == << >>

Some(v) == <<v>>

UnwrapOrDefault(o) == IF o = << >> THEN "" ELSE o[1]

Last(s) == s[Len(s)]

Front(s) == SubSeq(s, 1, Len(s) - 1)

----------------------------------------------------------------------------
(* Bounds of the model                                                     *)

\* Upper bound on the number of upstream items (frames, the read error, the
\* end of the stream) one frame-level session consumes.
MaxReads == 3

----------------------------------------------------------------------------
(* The emitted events.  Every event is a record with the same fields; the  *)
(* fields an event kind does not carry hold the defaults of NoEvent.       *)
(* Field nulls is the set of keys the event's JSON object holds with the   *)
(* value null; a key that is neither filled nor in nulls is not in the     *)
(* object.                                                                 *)

NoEvent ==
    [type |-> "", index |-> -1, kind |-> "", text |-> << >>,
     id |-> "", name |-> "", model |-> "", usage |-> None, nulls |-> {}]

MessageStartEvent(id, model) ==
    [NoEvent EXCEPT !.type = "message_start", !.id = id, !.model = model,
                    !.usage = Some(0)]

ContentBlockStartEvent(index, kind, id, name) ==
    [NoEvent EXCEPT !.type = "content_block_start", !.index = index,
                    !.kind = kind, !.id = id, !.name = name]

ContentBlockDeltaEvent(index, kind, text) ==
    [NoEvent EXCEPT !.type = "content_block_delta", !.index = index,
                    !.kind = kind, !.text = text]

ContentBlockStopEvent(index) ==
    [NoEvent EXCEPT !.type = "content_block_stop", !.index = index]

\* proxy.rs:358-367: json! writes "stop_sequence": null, and writes the key
\* "usage" with the value of an Option, null when the Option is None
MessageDeltaEvent(stop_reason, usage) ==
    [NoEvent EXCEPT !.type = "message_delta", !.kind = stop_reason,
                    !.usage = usage,
                    !.nulls = {"stop_sequence"}
                                \cup (IF usage = None THEN {"usage"} ELSE {})]

MessageStopEvent == [NoEvent EXCEPT !.type = "message_stop"]

ErrorEvent == [NoEvent EXCEPT !.type = "error", !.kind = "stream_error"]

----------------------------------------------------------------------------
(* Stop-Reason Mapper                                                      *)

\* Mutant of map_stop_reason: an unknown finish reason is passed through.
map_stop_reason_passes_unknown(finish_reason) ==
    IF finish_reason = None THEN None
    ELSE Some(CASE finish_reason[1] = "tool_calls" -> "tool_use"
                [] finish_reason[1] = "stop"       -> "end_turn"
                [] finish_reason[1] = "length"     -> "max_tokens"
                [] OTHER                           -> finish_reason[1])

\* transform.rs:286-293
map_stop_reason(finish_reason) ==
    IF finish_reason = None THEN None
    ELSE Some(CASE finish_reason[1] = "tool_calls" -> "tool_use"
                [] finish_reason[1] = "stop"       -> "end_turn"
                [] finish_reason[1] = "length"     -> "max_tokens"
                [] OTHER                           -> "end_turn")

----------------------------------------------------------------------------
(* The reassembler state as one value, and the steps of the loop body.     *)
(* Each step maps a state to the state after it; field out is the list of  *)
(* items yielded so far.                                                   *)

InitState ==
    [message_id |-> None, current_model |-> None, content_index |-> 0,
     tool_call_id |-> None, tool_call_name |-> None, tool_call_args |-> << >>,
     has_sent_message_start |-> FALSE, current_block_type |-> None,
     out |-> << >>]

\* Mutant of Yield: the new event is put ahead of the events already sent.
YieldAhead(s, e) == [s EXCEPT !.out = <<e>> \o @]

\* `yield Ok(Bytes::from(..))` in the generator: the event goes out, after
\* the events yielded before it, before the generator runs on.
Yield(s, e) == [s EXCEPT !.out = Append(@, e)]

\* Mutant of SetIdAndModel: every chunk sets the id and the model.
SetIdAndModelOverwrites(s, chunk) ==
    [s EXCEPT !.message_id = Some(chunk.id), !.current_model = Some(chunk.model)]

\* proxy.rs:183-188
SetIdAndModel(s, chunk) ==
    [s EXCEPT !.message_id = IF @ = None THEN Some(chunk.id) ELSE @,
              !.current_model = IF @ = None THEN Some(chunk.model) ELSE @]

\* Mutant of SendMessageStart: the flag is never set.
SendMessageStartNoFlag(s) ==
    IF ~s.has_sent_message_start
    THEN Yield(s, MessageStartEvent(UnwrapOrDefault(s.message_id),
                                    UnwrapOrDefault(s.current_model)))
    ELSE s

\* proxy.rs:191-208
SendMessageStart(s) ==
    IF ~s.has_sent_message_start
    THEN [Yield(s, MessageStartEvent(UnwrapOrDefault(s.message_id),
                                     UnwrapOrDefault(s.current_model)))
            EXCEPT !.has_sent_message_start = TRUE]
    ELSE s

\* proxy.rs:210-237
HandleReasoning(s, reasoning) ==
    IF reasoning = None THEN s
    ELSE LET s1 == IF s.current_block_type = None
                   THEN [Yield(s, ContentBlockStartEvent(s.content_index,
                                                         "thinking", "", ""))
                           EXCEPT !.current_block_type = Some("thinking")]
                   ELSE s
         IN  Yield(s1, ContentBlockDeltaEvent(s1.content_index,
                                              "thinking_delta", reasoning[1]))

\* Mutant of HandleContent: the test on the open block's type is dropped, so
\* every fragment closes the open block and opens a new text block.
HandleContentAlwaysOpens(s, content) ==
    IF content = None \/ content[1] = << >> THEN s
    ELSE LET s0 == IF s.current_block_type /= None
                   THEN [Yield(s, ContentBlockStopEvent(s.content_index))
                           EXCEPT !.content_index = @ + 1]
                   ELSE s
             s1 == [Yield(s0, ContentBlockStartEvent(s0.content_index,
                                                     "text", "", ""))
                      EXCEPT !.current_block_type = Some("text")]
         IN  Yield(s1, ContentBlockDeltaEvent(s1.content_index,
                                              "text_delta", content[1]))

\* Mutant of HandleContent: the open block is closed without the increment
\* of content_index.
HandleContentNoIncrement(s, content) ==
    IF content = None \/ content[1] = << >> THEN s
    ELSE LET s1 == IF s.current_block_type /= Some("text")
                   THEN LET s0 == IF s.current_block_type /= None
                                  THEN Yield(s, ContentBlockStopEvent(s.content_index))
                                  ELSE s
                        IN  [Yield(s0, ContentBlockStartEvent(s0.content_index,
                                                              "text", "", ""))
                               EXCEPT !.current_block_type = Some("text")]
                   ELSE s
         IN  Yield(s1, ContentBlockDeltaEvent(s1.content_index,
                                              "text_delta", content[1]))

\* proxy.rs:239-281
HandleContent(s, content) ==
    IF content = None \/ content[1] = << >> THEN s
    ELSE LET s1 == IF s.current_block_type /= Some("text")
                   THEN LET s0 == IF s.current_block_type /= None
                                  THEN [Yield(s, ContentBlockStopEvent(s.content_index))
                                          EXCEPT !.content_index = @ + 1]
                                  ELSE s
                        IN  [Yield(s0, ContentBlockStartEvent(s0.content_index,
                                                              "text", "", ""))
                               EXCEPT !.current_block_type = Some("text")]
                   ELSE s
         IN  Yield(s1, ContentBlockDeltaEvent(s1.content_index,
                                              "text_delta", content[1]))

\* proxy.rs:286-301
HandleToolCallId(s, id) ==
    IF id = None THEN s
    ELSE LET s0 == IF s.current_block_type /= None
                   THEN [Yield(s, ContentBlockStopEvent(s.content_index))
                           EXCEPT !.content_index = @ + 1]
                   ELSE s
         IN  [s0 EXCEPT !.tool_call_id = Some(id[1]),
                        !.tool_call_args = << >>]

\* proxy.rs:304-321
HandleToolCallName(s, name) ==
    IF name = None THEN s
    ELSE [Yield([s EXCEPT !.tool_call_name = Some(name[1])],
                ContentBlockStartEvent(s.content_index, "tool_use",
                                       UnwrapOrDefault(s.tool_call_id), name[1]))
            EXCEPT !.current_block_type = Some("tool_use")]

\* Mutant of HandleToolCallArguments: the delta carries the accumulated
\* argument buffer instead of the fragment.
HandleToolCallArgumentsSendsBuffer(s, arguments) ==
    IF arguments = None THEN s
    ELSE Yield([s EXCEPT !.tool_call_args = @ \o arguments[1]],
               ContentBlockDeltaEvent(s.content_index, "input_json_delta",
                                      s.tool_call_args \o arguments[1]))

\* proxy.rs:323-338
HandleToolCallArguments(s, arguments) ==
    IF arguments = None THEN s
    ELSE Yield([s EXCEPT !.tool_call_args = @ \o arguments[1]],
               ContentBlockDeltaEvent(s.content_index, "input_json_delta",
                                      arguments[1]))

\* proxy.rs:303-339
HandleToolCallFunction(s, function) ==
    IF function = None THEN s
    ELSE HandleToolCallArguments(HandleToolCallName(s, function[1].name),
                                 function[1].arguments)

\* proxy.rs:285-340, the body of the loop over one fragment
HandleToolCall(s, tool_call) ==
    HandleToolCallFunction(HandleToolCallId(s, tool_call.id), tool_call.function)

RECURSIVE ForEachToolCall(_, _)
ForEachToolCall(s, tool_calls) ==
    IF tool_calls = << >> THEN s
    ELSE ForEachToolCall(HandleToolCall(s, Head(tool_calls)), Tail(tool_calls))

\* proxy.rs:284-341
HandleToolCalls(s, tool_calls) ==
    IF tool_calls = None THEN s ELSE ForEachToolCall(s, tool_calls[1])

\* proxy.rs:344-371
HandleFinishReason(s, finish_reason, usage) ==
    IF finish_reason = None THEN s
    ELSE LET s0 == IF s.current_block_type /= None
                   THEN Yield(s, ContentBlockStopEvent(s.content_index))
                   ELSE s
         IN  Yield(s0, MessageDeltaEvent(UnwrapOrDefault(map_stop_reason(finish_reason)),
                                         usage))

\* proxy.rs:190-372
HandleChoice(s, choice, usage) ==
    HandleFinishReason(
        HandleToolCalls(
            HandleContent(
                HandleReasoning(SendMessageStart(s), choice.delta.reasoning),
                choice.delta.content),
            choice.delta.tool_calls),
        choice.finish_reason, usage)

\* proxy.rs:182-373
ProcessChunk(s, chunk) ==
    LET s1 == SetIdAndModel(s, chunk)
    IN  IF chunk.choices = << >> THEN s1
        ELSE HandleChoice(s1, Head(chunk.choices), chunk.usage)

----------------------------------------------------------------------------
(* One line of a frame, after the tests of proxy.rs:173, 174 and 182:      *)
(*   "done"   the line is `data: ` followed by [DONE]                      *)
(*   "chunk"  the line is `data: ` followed by a payload that parses       *)
(*   "bad"    the line is `data: ` followed by a payload that does not     *)
(*   "other"  the line does not start with `data: `                        *)

Fn(name, arguments) == [name |-> name, arguments |-> arguments]

Frag(id, function) == [id |-> id, function |-> function]

Choice(reasoning, content, tool_calls, finish_reason) ==
    [delta |-> [reasoning |-> reasoning, content |-> content,
                tool_calls |-> tool_calls],
     finish_reason |-> finish_reason]

Chunk(id, model, choices, usage) ==
    [id |-> id, model |-> model, choices |-> choices, usage |-> usage]

NoChunk == Chunk("", "", << >>, None)

ChunkLine(chunk) == [kind |-> "chunk", chunk |-> chunk]

DoneLine == [kind |-> "done", chunk |-> NoChunk]

BadLine == [kind |-> "bad", chunk |-> NoChunk]

OtherLine == [kind |-> "other", chunk |-> NoChunk]

ErrorItem == [kind |-> "error", chunk |-> NoChunk]

EndItem == [kind |-> "end", chunk |-> NoChunk]

\* Mutant of ProcessLine: a payload that does not parse is surfaced as an
\* error event.
ProcessLineSurfacesBadPayload(s, l) ==
    CASE l.kind = "done"  -> Yield(s, MessageStopEvent)
      [] l.kind = "chunk" -> ProcessChunk(s, l.chunk)
      [] l.kind = "bad"   -> Yield(s, ErrorEvent)
      [] OTHER            -> s

\* Mutant of ProcessLine: [DONE] first closes the block that is open.
ProcessLineDoneClosesBlock(s, l) ==
    CASE l.kind = "done"  ->
             Yield(IF s.current_block_type /= None
                   THEN [Yield(s, ContentBlockStopEvent(s.content_index))
                           EXCEPT !.current_block_type = None]
                   ELSE s,
                   MessageStopEvent)
      [] l.kind = "chunk" -> ProcessChunk(s, l.chunk)
      [] OTHER            -> s

\* proxy.rs:173-374, the body of `for l in line.lines()`
ProcessLine(s, l) ==
    CASE l.kind = "done"  -> Yield(s, MessageStopEvent)
      [] l.kind = "chunk" -> ProcessChunk(s, l.chunk)
      [] OTHER            -> s

----------------------------------------------------------------------------
(* The inputs of a frame-level session                                     *)

IdName == Frag(Some("t1"), Some(Fn(Some("f"), None)))

IdOnly == Frag(Some("t1"), None)

NameOnly == Frag(None, Some(Fn(Some("f"), None)))

ArgsX == Frag(None, Some(Fn(None, Some(<<"x">>))))

ArgsY == Frag(None, Some(Fn(None, Some(<<"y">>))))

ToolCallLists ==
    {<<IdName>>, <<IdOnly>>, <<NameOnly>>, <<ArgsX>>, <<ArgsY>>, <<IdName, ArgsX>>}

TextChoices ==
    {Choice(None, c, None, f) :
        c \in {None, Some(<< >>), Some(<<"a">>), Some(<<"b">>)},
        f \in {None, Some("stop")}}

ReasoningChoices ==
    {Choice(Some(<<"r">>), c, None, None) : c \in {None, Some(<<"a">>)}}

ToolChoices ==
    {Choice(None, None, Some(tc), f) :
        tc \in ToolCallLists, f \in {None, Some("tool_calls")}}

OtherFinishChoices ==
    {Choice(None, None, None, Some(f)) : f \in {"length", "content_filter"}}

Chunks ==
    {Chunk("m1", "g1", <<c>>, None) :
        c \in TextChoices \cup ReasoningChoices \cup ToolChoices}
    \cup {Chunk("m1", "g1", <<c>>, Some(5)) : c \in OtherFinishChoices}
    \cup {Chunk("m1", "g1", << >>, None), Chunk("m2", "g2", << >>, Some(7))}
    \cup {Chunk("m1", "g1", <<Choice(None, Some(<<"a">>), None, None),
                              Choice(Some(<<"r">>), Some(<<"b">>), Some(<<IdName>>),
                                     Some("stop"))>>, None)}

Lines == {ChunkLine(c) : c \in Chunks} \cup {DoneLine, BadLine, OtherLine}

----------------------------------------------------------------------------
(* The generator                                                           *)

State ==
    [message_id |-> message_id, current_model |-> current_model,
     content_index |-> content_index, tool_call_id |-> tool_call_id,
     tool_call_name |-> tool_call_name, tool_call_args |-> tool_call_args,
     has_sent_message_start |-> has_sent_message_start,
     current_block_type |-> current_block_type, out |-> events]

Install(s) ==
    /\ message_id' = s.message_id
    /\ current_model' = s.current_model
    /\ content_index' = s.content_index
    /\ tool_call_id' = s.tool_call_id
    /\ tool_call_name' = s.tool_call_name
    /\ tool_call_args' = s.tool_call_args
    /\ has_sent_message_start' = s.has_sent_message_start
    /\ current_block_type' = s.current_block_type
    /\ events' = s.out

\* The second session and the translators are not in use in a session of
\* one stream.
NoSession == [state |-> InitState, frames |-> << >>, running |-> FALSE]

NoCall == [fn |-> "none"]

\* proxy.rs:146-154
Init ==
    /\ buffer = << >>
    /\ message_id = None
    /\ current_model = None
    /\ content_index = 0
    /\ tool_call_id = None
    /\ tool_call_name = None
    /\ tool_call_args = << >>
    /\ has_sent_message_start = FALSE
    /\ current_block_type = None
    /\ events = << >>
    /\ running = TRUE
    /\ frames = << >>
    /\ wire = << >>
    /\ pos = 0
    /\ session_b = NoSession
    /\ call = NoCall

\* proxy.rs:158-377: stream.next() yields Ok(bytes), and the bytes are one
\* complete frame (one line l and the blank line that ends it), so the
\* buffer is empty before and after.
ReadFrame(l) ==
    /\ running
    /\ Len(frames) < MaxReads
    /\ Install(ProcessLine(State, l))
    /\ frames' = Append(frames, l)
    /\ UNCHANGED <<buffer, running, wire, pos, session_b, call>>

\* Mutant of ReadError: the break is missing, the loop goes on reading.
ReadErrorNoBreak ==
    /\ running
    /\ Len(frames) < MaxReads
    /\ events' = Append(events, ErrorEvent)
    /\ frames' = Append(frames, ErrorItem)
    /\ UNCHANGED <<buffer, message_id, current_model, content_index,
                   tool_call_id, tool_call_name, tool_call_args,
                   has_sent_message_start, current_block_type, running,
                   wire, pos, session_b, call>>

\* proxy.rs:378-391: stream.next() yields Err(e)
ReadError ==
    /\ running
    /\ Len(frames) < MaxReads
    /\ events' = Append(events, ErrorEvent)
    /\ running' = FALSE
    /\ frames' = Append(frames, ErrorItem)
    /\ UNCHANGED <<buffer, message_id, current_model, content_index,
                   tool_call_id, tool_call_name, tool_call_args,
                   has_sent_message_start, current_block_type, wire, pos,
                   session_b, call>>

\* proxy.rs:158, 393-394: stream.next() yields None
StreamEnd ==
    /\ running
    /\ Len(frames) < MaxReads
    /\ running' = FALSE
    /\ frames' = Append(frames, EndItem)
    /\ UNCHANGED <<buffer, message_id, current_model, content_index,
                   tool_call_id, tool_call_name, tool_call_args,
                   has_sent_message_start, current_block_type, events,
                   wire, pos, session_b, call>>

Next ==
    \/ \E l \in Lines : ReadFrame(l)
    \/ ReadError
    \/ StreamEnd

Spec == Init /\ [][Next]_vars

----------------------------------------------------------------------------
(* Two sessions.  Each call of create_sse_stream makes a generator with    *)
(* its own locals (proxy.rs:146-154): the first session is in the          *)
(* variables of the module, the second in the record session_b.            *)

SessionLines ==
    {ChunkLine(Chunk("m1", "g1", <<Choice(None, Some(<<"a">>), None, None)>>, None)),
     ChunkLine(Chunk("m2", "g2", << >>, Some(7))),
     ChunkLine(Chunk("m1", "g1", <<Choice(None, None, Some(<<IdName, ArgsX>>), None)>>,
                     None)),
     ChunkLine(Chunk("m1", "g1", <<Choice(None, None, None, Some("length"))>>, Some(5)))}

InitTwo ==
    /\ buffer = << >>
    /\ message_id = None
    /\ current_model = None
    /\ content_index = 0
    /\ tool_call_id = None
    /\ tool_call_name = None
    /\ tool_call_args = << >>
    /\ has_sent_message_start = FALSE
    /\ current_block_type = None
    /\ events = << >>
    /\ running = TRUE
    /\ frames = << >>
    /\ wire = << >>
    /\ pos = 0
    /\ session_b = [state |-> InitState, frames |-> << >>, running |-> TRUE]
    /\ call = NoCall

session_a_vars ==
    <<buffer, message_id, current_model, content_index, tool_call_id,
      tool_call_name, tool_call_args, has_sent_message_start,
      current_block_type, events, running, frames, wire, pos>>

\* Mutant of ReadFrameB: the state is shared, the second session works on
\* the locals of the first.
ReadFrameBShared(l) ==
    /\ session_b.running
    /\ Len(session_b.frames) < MaxReads
    /\ session_b' = [session_b EXCEPT !.state = ProcessLine(State, l),
                                      !.frames = Append(@, l)]
    /\ UNCHANGED <<session_a_vars, call>>

\* proxy.rs:158-377 in the second session: stream.next() yields Ok(bytes)
ReadFrameB(l) ==
    /\ session_b.running
    /\ Len(session_b.frames) < MaxReads
    /\ session_b' = [session_b EXCEPT !.state = ProcessLine(@, l),
                                      !.frames = Append(@, l)]
    /\ UNCHANGED <<session_a_vars, call>>

\* proxy.rs:378-391 in the second session: stream.next() yields Err(e)
ReadErrorB ==
    /\ session_b.running
    /\ Len(session_b.frames) < MaxReads
    /\ session_b' = [session_b EXCEPT !.state = Yield(@, ErrorEvent),
                                      !.frames = Append(@, ErrorItem),
                                      !.running = FALSE]
    /\ UNCHANGED <<session_a_vars, call>>

\* proxy.rs:158, 393-394 in the second session: stream.next() yields None
StreamEndB ==
    /\ session_b.running
    /\ Len(session_b.frames) < MaxReads
    /\ session_b' = [session_b EXCEPT !.frames = Append(@, EndItem),
                                      !.running = FALSE]
    /\ UNCHANGED <<session_a_vars, call>>

\* The runtime polls either generator, in any order.
NextTwo ==
    \/ \E l \in SessionLines : ReadFrame(l)
    \/ ReadError
    \/ StreamEnd
    \/ \E l \in SessionLines : ReadFrameB(l)
    \/ ReadErrorB
    \/ StreamEndB

SpecTwo == InitTwo /\ [][NextTwo]_vars

----------------------------------------------------------------------------
(* The byte level.  An upstream byte is one of                             *)
(*   "NL"        the byte 0A                                               *)
(*   "D"         the six bytes of the prefix `data: `                      *)
(*   "!"         the bytes of [DONE]                                       *)
(*   "{"         the JSON of a chunk up to the opening quote of its        *)
(*               content string                                            *)
(*   "}"         the JSON of the chunk from the closing quote on           *)
(*   "a"         an ASCII character of the content                         *)
(*   "C3", "A9"  the two bytes of the UTF-8 encoding of U+00E9             *)
(*   "e", "x"    other ASCII bytes                                         *)
(* and a character of the buffer is an ASCII byte, "U+00E9" or "U+FFFD".   *)

\* proxy.rs:161, String::from_utf8_lossy on the bytes of one read: a lead
\* byte without its continuation byte, and a continuation byte without its
\* lead byte, each decode to U+FFFD.
RECURSIVE from_utf8_lossy(_)
from_utf8_lossy(bytes) ==
    IF bytes = << >> THEN << >>
    ELSE IF bytes[1] = "C3"
         THEN IF Len(bytes) >= 2 /\ bytes[2] = "A9"
              THEN <<"U+00E9">> \o from_utf8_lossy(SubSeq(bytes, 3, Len(bytes)))
              ELSE <<"U+FFFD">> \o from_utf8_lossy(Tail(bytes))
         ELSE IF bytes[1] = "A9"
              THEN <<"U+FFFD">> \o from_utf8_lossy(Tail(bytes))
              ELSE <<bytes[1]>> \o from_utf8_lossy(Tail(bytes))

ContentChars == {"a", "U+00E9", "U+FFFD"}

\* proxy.rs:182, serde_json::from_str::<StreamChunk>(data)
ParsesAsChunk(data) ==
    /\ Len(data) >= 2
    /\ data[1] = "{"
    /\ Last(data) = "}"
    /\ \A i \in 2..(Len(data) - 1) : data[i] \in ContentChars

\* proxy.rs:173-182, the three tests on one line
ClassifyLine(l) ==
    IF l = << >> \/ l[1] /= "D" THEN OtherLine
    ELSE LET data == Tail(l)
         IN  IF data = <<"!">> THEN DoneLine
             ELSE IF ParsesAsChunk(data)
                  THEN ChunkLine(Chunk("m1", "g1",
                           <<Choice(None, Some(SubSeq(data, 2, Len(data) - 1)),
                                    None, None)>>, None))
                  ELSE BadLine

\* str::find("\n\n"): the first position of a blank line, 0 when there is none
FindBlankLine(buf) ==
    LET ps == {p \in 1..(Len(buf) - 1) : buf[p] = "NL" /\ buf[p + 1] = "NL"}
    IN  IF ps = {} THEN 0 ELSE CHOOSE p \in ps : \A q \in ps : p <= q

\* str::lines()
RECURSIVE SplitLines(_)
SplitLines(text) ==
    IF text = << >> THEN << >>
    ELSE LET ps == {p \in 1..Len(text) : text[p] = "NL"}
         IN  IF ps = {} THEN <<text>>
             ELSE LET p == CHOOSE p \in ps : \A q \in ps : p <= q
                  IN  <<SubSeq(text, 1, p - 1)>>
                      \o SplitLines(SubSeq(text, p + 1, Len(text)))

\* proxy.rs:172-375
RECURSIVE ForEachLine(_, _)
ForEachLine(s, ls) ==
    IF ls = << >> THEN s
    ELSE ForEachLine(ProcessLine(s, ClassifyLine(Head(ls))), Tail(ls))

\* proxy.rs:164-376: the state and the buffer after the inner while loop
RECURSIVE DrainBuffer(_, _)
DrainBuffer(s, buf) ==
    LET p == FindBlankLine(buf)
    IN  IF p = 0 THEN [state |-> s, buffer |-> buf]
        ELSE LET line == SubSeq(buf, 1, p - 1)
                 rest == SubSeq(buf, p + 2, Len(buf))
             IN  IF \A i \in DOMAIN line : line[i] = "NL"
                 THEN DrainBuffer(s, rest)
                 ELSE DrainBuffer(ForEachLine(s, SplitLines(line)), rest)

\* proxy.rs:160-377, the arm Ok(bytes)
OnBytes(s, buf, bytes) == DrainBuffer(s, buf \o from_utf8_lossy(bytes))

ByteFrames ==
    {<<"D", "{", "a", "}", "NL", "NL">>,
     <<"D", "{", "C3", "A9", "a", "}", "NL", "NL">>,
     <<"D", "!", "NL", "NL">>,
     <<"D", "x", "NL", "NL">>,
     <<"e", "NL", "D", "{", "a", "a", "}", "NL", "NL">>,
     <<"NL", "NL">>}

\* The start of a frame that the upstream does not end with a blank line
UnterminatedFrames ==
    {<<"D", "!">>, <<"D", "!", "NL">>, <<"D", "{", "a", "}">>,
     <<"D", "{", "a", "}", "NL", "D", "!">>}

Wires ==
    ByteFrames \cup {f \o g : f \in ByteFrames, g \in ByteFrames}
    \cup {f \o u : f \in ByteFrames \cup {<< >>}, u \in UnterminatedFrames}

InitBytes ==
    /\ buffer = << >>
    /\ message_id = None
    /\ current_model = None
    /\ content_index = 0
    /\ tool_call_id = None
    /\ tool_call_name = None
    /\ tool_call_args = << >>
    /\ has_sent_message_start = FALSE
    /\ current_block_type = None
    /\ events = << >>
    /\ running = TRUE
    /\ frames = << >>
    /\ wire \in Wires
    /\ pos = 0
    /\ session_b = NoSession
    /\ call = NoCall

\* proxy.rs:158-377: stream.next() yields Ok(bytes) with the next n bytes
ReadBytes(n) ==
    /\ running
    /\ pos + n <= Len(wire)
    /\ LET r == OnBytes(State, buffer, SubSeq(wire, pos + 1, pos + n))
       IN  /\ Install(r.state)
           /\ buffer' = r.buffer
    /\ pos' = pos + n
    /\ UNCHANGED <<running, frames, wire, session_b, call>>

\* Mutant of EndOfBytes: what is left in the buffer is processed as a last
\* frame.
EndOfBytesFlushes ==
    /\ pos = Len(wire)
    /\ running
    /\ Len(frames) < MaxReads
    /\ Install(ForEachLine(State, SplitLines(buffer)))
    /\ buffer' = << >>
    /\ running' = FALSE
    /\ frames' = Append(frames, EndItem)
    /\ UNCHANGED <<wire, pos, session_b, call>>

\* proxy.rs:158, 393-394: the upstream has no more bytes
EndOfBytes ==
    /\ pos = Len(wire)
    /\ StreamEnd

NextBytes ==
    \/ \E n \in 1..Len(wire) : ReadBytes(n)
    \/ EndOfBytes
    \/ ReadError

SpecBytes == InitBytes /\ [][NextBytes]_vars

----------------------------------------------------------------------------
(* Reading the emitted event sequence                                      *)

IsStart(e) == e.type = "content_block_start"

IsDelta(e) == e.type = "content_block_delta"

IsStop(e) == e.type = "content_block_stop"

ContentTypes ==
    {"content_block_start", "content_block_delta", "content_block_stop",
     "message_delta"}

\* The state reached by consuming the upstream items `items` from the start.
ReplayItem(s, item) ==
    IF item.kind = "error" THEN Yield(s, ErrorEvent) ELSE ProcessLine(s, item)

RECURSIVE Replay(_)
Replay(items) ==
    IF items = << >> THEN InitState
    ELSE ReplayItem(Replay(Front(items)), Last(items))

----------------------------------------------------------------------------
(* C1: for every block index N, the content_block_start for N comes        *)
(* strictly before every content_block_delta for N, and every              *)
(* content_block_delta for N strictly before the content_block_stop for N: *)
(* no delta is emitted for an index that has no earlier start or that      *)
(* already has a stop.                                                     *)
C1_StartDeltaStopOrder ==
    \A i \in DOMAIN events :
        IsDelta(events[i]) =>
            /\ \E j \in 1..(i - 1) :
                   IsStart(events[j]) /\ events[j].index = events[i].index
            /\ \A k \in 1..(i - 1) :
                   ~(IsStop(events[k]) /\ events[k].index = events[i].index)

(* C2: the indices carried by the emitted content_block_start events are   *)
(* 0, 1, 2, ... in emission order.                                         *)
C2_StartIndicesDense ==
    LET starts == SelectSeq(events, IsStart)
    IN  \A k \in DOMAIN starts : starts[k].index = k - 1

(* C3: at most one content block is open at any point: a                   *)
(* content_block_start is never emitted while an earlier                   *)
(* content_block_start still has no matching content_block_stop.           *)
C3_AtMostOneOpenBlock ==
    \A i \in DOMAIN events :
        IsStart(events[i]) =>
            \A j \in 1..(i - 1) :
                IsStart(events[j]) =>
                    \E k \in (j + 1)..(i - 1) :
                        IsStop(events[k]) /\ events[k].index = events[j].index

(* C4: message_start is emitted at most once, and before every             *)
(* content_block_start, content_block_delta, content_block_stop and        *)
(* message_delta of the session.                                           *)
C4_MessageStartOnceAndFirst ==
    /\ Cardinality({i \in DOMAIN events : events[i].type = "message_start"}) <= 1
    /\ \A i \in DOMAIN events :
           events[i].type \in ContentTypes =>
               \E j \in 1..(i - 1) : events[j].type = "message_start"

\* Three chunks with a choice were consumed, the first opened the message and
\* content and a message_delta followed.
C4_Witness ==
    /\ Len(frames) = 3
    /\ \A p \in DOMAIN frames :
           frames[p].kind = "chunk" /\ frames[p].chunk.choices /= << >>
    /\ events /= << >> /\ events[1].type = "message_start"
    /\ \E i \in DOMAIN events : IsDelta(events[i])
    /\ \E i \in DOMAIN events : events[i].type = "message_delta"

(* C5: message_stop, emitted when [DONE] is processed, is the last event   *)
(* of the output and is emitted at most once: nothing that follows [DONE]  *)
(* in the upstream produces an event.                                      *)
C5_MessageStopIsLast ==
    \A i \in DOMAIN events :
        events[i].type = "message_stop" => i = Len(events)

(* C6: when a read of the upstream fails, exactly one more event is        *)
(* emitted, an error event of type stream_error, and the session ends: the *)
(* error event stays the last event, whatever block was open.              *)
C6_ReadErrorEndsSession ==
    /\ [][(running /\ frames' = Append(frames, ErrorItem))
            => (events' = Append(events, ErrorEvent) /\ ~running')]_vars
    /\ [](\A p \in DOMAIN frames :
            frames[p].kind = "error" =>
                /\ p = Len(frames)
                /\ ~running
                /\ Last(events) = ErrorEvent
                /\ events = Append(Replay(Front(frames)).out, ErrorEvent))

\* The read failed while a text block was open, after three events.
C6_Witness ==
    /\ frames /= << >> /\ Last(frames).kind = "error"
    /\ Len(events) >= 4
    /\ current_block_type = Some("text")
    /\ \A i \in DOMAIN events : ~IsStop(events[i])

IsNotBad(item) == item.kind /= "bad"

(* C7: a `data: ` line whose payload is neither [DONE] nor a parseable     *)
(* chunk emits no event and changes no reassembler state: the state and    *)
(* the events after a sequence of upstream items equal those after the     *)
(* same sequence with every such line removed.                             *)
C7_MalformedLineHasNoEffect ==
    State = Replay(SelectSeq(frames, IsNotBad))

\* A malformed line arrived between two chunks, while a block was open.
C7_Witness ==
    /\ Len(frames) = 3
    /\ frames[1].kind = "chunk" /\ frames[2].kind = "bad" /\ frames[3].kind = "chunk"
    /\ Len(events) >= 4
    /\ current_block_type /= None

----------------------------------------------------------------------------
(* Streams of text chunks                                                  *)

IsTextChunk(item, isLast) ==
    /\ item.kind = "chunk"
    /\ item.chunk.choices /= << >>
    /\ LET choice == Head(item.chunk.choices)
       IN  /\ choice.delta.reasoning = None
           /\ choice.delta.content /= None
           /\ choice.delta.content[1] /= << >>
           /\ choice.delta.tool_calls \in {None, Some(<< >>)}
           /\ choice.finish_reason = (IF isLast THEN Some("stop") ELSE None)

IsTextStream(items) ==
    /\ Len(items) >= 2
    /\ Last(items).kind = "done"
    /\ \A p \in 1..(Len(items) - 1) : IsTextChunk(items[p], p = Len(items) - 1)

TextStreamEvents(items) ==
    LET k == Len(items) - 1
    IN  <<MessageStartEvent(items[1].chunk.id, items[1].chunk.model),
          ContentBlockStartEvent(0, "text", "", "")>>
        \o [p \in 1..k |->
              ContentBlockDeltaEvent(0, "text_delta",
                                     Head(items[p].chunk.choices).delta.content[1])]
        \o <<ContentBlockStopEvent(0),
             MessageDeltaEvent("end_turn", items[k].chunk.usage),
             MessageStopEvent>>

(* C9: k >= 1 chunks, each carrying one non-empty text fragment and no     *)
(* reasoning or tool calls, the last also carrying finish reason stop,     *)
(* followed by [DONE], produce exactly message_start,                      *)
(* content_block_start(0, text), the k text_delta events in arrival order  *)
(* at index 0, content_block_stop(0), message_delta(end_turn),             *)
(* message_stop.                                                           *)
C9_TextStreamOutput ==
    IsTextStream(frames) => events = TextStreamEvents(frames)

\* Two chunks with different fragments, then [DONE].
C9_Witness ==
    /\ IsTextStream(frames)
    /\ Len(frames) = 3
    /\ Head(frames[1].chunk.choices).delta.content
         /= Head(frames[2].chunk.choices).delta.content

----------------------------------------------------------------------------
(* Streams of one tool call                                               *)

RECURSIVE AllToolCalls(_)
AllToolCalls(items) ==
    IF items = << >> THEN << >>
    ELSE LET tc == Head(Last(items).chunk.choices).delta.tool_calls
         IN  AllToolCalls(Front(items)) \o (IF tc = None THEN << >> ELSE tc[1])

IsToolChunk(item, isLast) ==
    /\ item.kind = "chunk"
    /\ item.chunk.choices /= << >>
    /\ LET choice == Head(item.chunk.choices)
       IN  /\ choice.delta.reasoning = None
           /\ choice.delta.content \in {None, Some(<< >>)}
           /\ (choice.finish_reason /= None) = isLast

IsFirstFragment(tc) ==
    /\ tc.id /= None
    /\ tc.function /= None
    /\ tc.function[1].name /= None
    /\ tc.function[1].arguments = None

IsArgumentFragment(tc) ==
    /\ tc.id = None
    /\ tc.function /= None
    /\ tc.function[1].name = None
    /\ tc.function[1].arguments /= None

IsToolStream(items) ==
    /\ items /= << >>
    /\ \A p \in DOMAIN items : IsToolChunk(items[p], p = Len(items))
    /\ LET tcs == AllToolCalls(items)
       IN  /\ tcs /= << >>
           /\ IsFirstFragment(tcs[1])
           /\ \A q \in 2..Len(tcs) : IsArgumentFragment(tcs[q])

ToolStreamEvents(items) ==
    LET tcs == AllToolCalls(items)
        final == Last(items).chunk
    IN  <<MessageStartEvent(items[1].chunk.id, items[1].chunk.model),
          ContentBlockStartEvent(0, "tool_use", tcs[1].id[1],
                                 tcs[1].function[1].name[1])>>
        \o [q \in 1..(Len(tcs) - 1) |->
              ContentBlockDeltaEvent(0, "input_json_delta",
                                     tcs[q + 1].function[1].arguments[1])]
        \o <<ContentBlockStopEvent(0),
             MessageDeltaEvent(
                 UnwrapOrDefault(map_stop_reason(Head(final.choices).finish_reason)),
                 final.usage)>>

(* C10: a stream whose first tool-call fragment supplies an id and a       *)
(* function name, followed by n argument fragments and then a finish       *)
(* reason, produces one content_block_start of type tool_use with that id  *)
(* and name, n input_json_delta events at the same index carrying the      *)
(* argument fragments in order, one content_block_stop for that index and  *)
(* then message_delta.                                                     *)
C10_ToolStreamOutput ==
    IsToolStream(frames) => events = ToolStreamEvents(frames)

\* Id and name, then two different argument fragments, over two chunks or more.
C10_Witness ==
    /\ IsToolStream(frames)
    /\ Len(frames) >= 2
    /\ Len(AllToolCalls(frames)) >= 3
    /\ AllToolCalls(frames)[2] /= AllToolCalls(frames)[3]

----------------------------------------------------------------------------
(* C8: the emitted events depend only on the concatenation of the upstream *)
(* bytes, not on how they are split into reads, and a frame is acted on    *)
(* only after its terminating blank line has arrived: after any reads, the *)
(* events are those of a single read of the bytes received so far.         *)
C8_SplitInvariant ==
    (\A p \in DOMAIN frames : frames[p].kind /= "error") =>
        events = OnBytes(InitState, << >>, SubSeq(wire, 1, pos)).state.out

----------------------------------------------------------------------------
(* The translators of transform.rs.  They are functions of their           *)
(* arguments; a step of SpecTransform is one call, and variable call       *)
(* holds the function called, its arguments and its result.                *)

(* A serde_json::Value is a tagged record: a string, a number, or an        *)
(* object, which is a function from its keys to values.                    *)

JStr(s) == [t |-> "string", s |-> s]

JNum(n) == [t |-> "number", n |-> n]

JObj(o) == [t |-> "object", o |-> o]

JArr(a) == [t |-> "array", a |-> a]

EmptyMap == [k \in {} |-> k]

\* Value::as_str() == Some(s)
IsStr(v, s) == v.t = "string" /\ v.s = s

\* Map::remove
RemoveKey(o, key) == [k \in DOMAIN o \ {key} |-> o[k]]

\* Mutant of clean_schema: the format keyword is removed whatever its value.
RECURSIVE clean_schema_drops_every_format(_)
clean_schema_drops_every_format(schema) ==
    IF schema.t /= "object" THEN schema
    ELSE LET o1 == RemoveKey(schema.o, "format")
             o2 == IF "properties" \in DOMAIN o1 /\ o1["properties"].t = "object"
                   THEN [o1 EXCEPT !["properties"] =
                            JObj([k \in DOMAIN @.o |->
                                     clean_schema_drops_every_format(@.o[k])])]
                   ELSE o1
             o3 == IF "items" \in DOMAIN o2
                   THEN [o2 EXCEPT !["items"] = clean_schema_drops_every_format(@)]
                   ELSE o2
         IN  JObj(o3)

\* Mutant of clean_schema: the schema under items is left as it is.
RECURSIVE clean_schema_skips_items(_)
clean_schema_skips_items(schema) ==
    IF schema.t /= "object" THEN schema
    ELSE LET o1 == IF "format" \in DOMAIN schema.o
                      /\ IsStr(schema.o["format"], "uri")
                   THEN RemoveKey(schema.o, "format")
                   ELSE schema.o
             o2 == IF "properties" \in DOMAIN o1 /\ o1["properties"].t = "object"
                   THEN [o1 EXCEPT !["properties"] =
                            JObj([k \in DOMAIN @.o |-> clean_schema_skips_items(@.o[k])])]
                   ELSE o1
         IN  JObj(o2)

\* transform.rs:201-221
RECURSIVE clean_schema(_)
clean_schema(schema) ==
    IF schema.t /= "object" THEN schema
    ELSE LET o1 == IF "format" \in DOMAIN schema.o
                      /\ IsStr(schema.o["format"], "uri")
                   THEN RemoveKey(schema.o, "format")
                   ELSE schema.o
             o2 == IF "properties" \in DOMAIN o1 /\ o1["properties"].t = "object"
                   THEN [o1 EXCEPT !["properties"] =
                            JObj([k \in DOMAIN @.o |-> clean_schema(@.o[k])])]
                   ELSE o1
             o3 == IF "items" \in DOMAIN o2
                   THEN [o2 EXCEPT !["items"] = clean_schema(@)]
                   ELSE o2
         IN  JObj(o3)

\* The schemas given to clean_schema: every combination of the keywords
\* format, properties, items and definitions over the children `children`.
OptionalKey(key, values) == {EmptyMap} \cup {key :> v : v \in values}

UriSchema == JObj("format" :> JStr("uri"))

SchemaObjects(children) ==
    {JObj(f @@ p @@ i @@ d) :
        f \in OptionalKey("format", {JStr("uri"), JStr("date"), JNum(1)}),
        p \in OptionalKey("properties",
                 {JStr("uri")} \cup {JObj("p" :> c) : c \in children}
                 \cup {JObj(("p" :> c) @@ ("q" :> UriSchema)) : c \in children}),
        i \in OptionalKey("items", children),
        d \in OptionalKey("definitions", {UriSchema})}

LeafSchemas ==
    {JStr("uri"), JNum(1), UriSchema, JObj("format" :> JStr("date")),
     JObj(EmptyMap)}

InnerSchemas == SchemaObjects(LeafSchemas)

DeepSchemas ==
    {JObj("properties" :> JObj("p" :> JObj("items" :> s))) : s \in LeafSchemas}
    \cup {JObj("items" :> JObj("properties" :> JObj("p" :> s))) : s \in LeafSchemas}

\* An items keyword that holds a list of schemas, not a schema
ListSchemas ==
    {JObj("items" :> JArr(<<UriSchema>>)),
     JObj(("format" :> JStr("uri")) @@ ("items" :> JArr(<<UriSchema, JNum(1)>>)))}

Schemas == LeafSchemas \cup InnerSchemas \cup DeepSchemas \cup ListSchemas

----------------------------------------------------------------------------
(* Request translation.  Texts, ids and names are TLA+ strings.  A JSON    *)
(* text is Serialized(v), the serialization of the value v, or a           *)
(* RawText(s) that is not JSON.                                            *)

\* Upper bound on the number of content blocks of a source message.
MaxBlocks == 3

Ok(v) == [ok |-> TRUE, value |-> v]

Err(kind) == [ok |-> FALSE, error |-> kind]

\* serde_json::to_string
Serialized(v) == [json |-> v]

RawText(s) == [raw |-> s]

\* anthropic::ContentBlock
TextBlock(text) == [type |-> "text", text |-> text]

ImageBlock(media_type, data) ==
    [type |-> "image", source |-> [media_type |-> media_type, data |-> data]]

ToolUseBlock(id, name, input) ==
    [type |-> "tool_use", id |-> id, name |-> name, input |-> input]

ToolResultBlock(tool_use_id, content) ==
    [type |-> "tool_result", tool_use_id |-> tool_use_id, content |-> content]

ThinkingBlock == [type |-> "thinking"]

\* anthropic::MessageContent and openai::MessageContent
TextContent(text) == [t |-> "text", text |-> text]

BlocksContent(blocks) == [t |-> "blocks", blocks |-> blocks]

PartsContent(parts) == [t |-> "parts", parts |-> parts]

\* openai::ContentPart
TextPart(text) == [type |-> "text", text |-> text]

\* transform.rs:128-134: the data URL is format!("data:{};base64,{}", ..)
ImageUrlPart(source) ==
    [type |-> "image_url",
     image_url |-> [url |-> <<"data:", source.media_type, ";base64,", source.data>>]]

\* openai::ToolCall, transform.rs:137-145
ToolCallOf(block) ==
    [id |-> block.id, call_type |-> "function",
     function |-> [name |-> block.name, arguments |-> Serialized(block.input)]]

\* openai::Message
Message(role, content, tool_calls, call_id) ==
    [role |-> role, content |-> content, tool_calls |-> tool_calls,
     tool_call_id |-> call_id, name |-> None]

\* transform.rs:153-159
ToolMessage(block) ==
    Message("tool", Some(TextContent(block.content)), None, Some(block.tool_use_id))

\* Mutant of ConvertBlock: a part or a tool call is put ahead of the pending
\* ones.
ConvertBlockPutsAhead(acc, block) ==
    CASE block.type = "text" ->
             [acc EXCEPT !.current_content_parts = <<TextPart(block.text)>> \o @]
      [] block.type = "image" ->
             [acc EXCEPT !.current_content_parts = <<ImageUrlPart(block.source)>> \o @]
      [] block.type = "tool_use" ->
             [acc EXCEPT !.tool_calls = <<ToolCallOf(block)>> \o @]
      [] block.type = "tool_result" ->
             [acc EXCEPT !.result = Append(@, ToolMessage(block))]
      [] OTHER -> acc

\* transform.rs:123-164, one iteration of the loop over the blocks; acc holds
\* result, current_content_parts and tool_calls
ConvertBlock(acc, block) ==
    CASE block.type = "text" ->
             [acc EXCEPT !.current_content_parts = Append(@, TextPart(block.text))]
      [] block.type = "image" ->
             [acc EXCEPT !.current_content_parts = Append(@, ImageUrlPart(block.source))]
      [] block.type = "tool_use" ->
             [acc EXCEPT !.tool_calls = Append(@, ToolCallOf(block))]
      [] block.type = "tool_result" ->
             [acc EXCEPT !.result = Append(@, ToolMessage(block))]
      [] OTHER -> acc

\* transform.rs:122-165
RECURSIVE ConvertBlocks(_, _)
ConvertBlocks(acc, blocks) ==
    IF blocks = << >> THEN acc
    ELSE ConvertBlocks(ConvertBlock(acc, Head(blocks)), Tail(blocks))

\* Mutant of AggregatedMessage: a single text part is not collapsed.
AggregatedMessageNeverCollapses(role, parts, tool_calls) ==
    Message(role, IF parts = << >> THEN None ELSE Some(PartsContent(parts)),
            IF tool_calls = << >> THEN None ELSE Some(tool_calls), None)

\* transform.rs:168-193
AggregatedMessage(role, parts, tool_calls) ==
    LET content ==
            IF parts = << >> THEN None
            ELSE IF Len(parts) = 1
                 THEN IF parts[1].type = "text"
                      THEN Some(TextContent(parts[1].text))
                      ELSE Some(PartsContent(parts))
                 ELSE Some(PartsContent(parts))
    IN  Message(role, content,
                IF tool_calls = << >> THEN None ELSE Some(tool_calls), None)

\* Mutant of convert_message: the tool messages are pushed after the
\* aggregated message instead of at once.
convert_message_tool_results_last(msg) ==
    IF msg.content.t = "text"
    THEN <<Message(msg.role, Some(TextContent(msg.content.text)), None, None)>>
    ELSE LET acc == ConvertBlocks([result |-> << >>, current_content_parts |-> << >>,
                                   tool_calls |-> << >>], msg.content.blocks)
         IN  IF acc.current_content_parts /= << >> \/ acc.tool_calls /= << >>
             THEN <<AggregatedMessage(msg.role, acc.current_content_parts,
                                      acc.tool_calls)>> \o acc.result
             ELSE acc.result

\* transform.rs:105-198
convert_message(msg) ==
    IF msg.content.t = "text"
    THEN <<Message(msg.role, Some(TextContent(msg.content.text)), None, None)>>
    ELSE LET acc == ConvertBlocks([result |-> << >>, current_content_parts |-> << >>,
                                   tool_calls |-> << >>], msg.content.blocks)
         IN  IF acc.current_content_parts /= << >> \/ acc.tool_calls /= << >>
             THEN Append(acc.result,
                         AggregatedMessage(msg.role, acc.current_content_parts,
                                           acc.tool_calls))
             ELSE acc.result

\* The source messages given to convert_message
Blocks ==
    {TextBlock("a"), TextBlock("b"), ImageBlock("image/png", "AAAA"),
     ToolUseBlock("t1", "f", JObj("x" :> JNum(1))),
     ToolResultBlock("t1", "r1"), ToolResultBlock("t2", "r2"), ThinkingBlock}

BlockLists == UNION {[1..n -> Blocks] : n \in 0..MaxBlocks}

SourceMessages ==
    {[role |-> r, content |-> c] :
        r \in {"user", "assistant"},
        c \in {TextContent("hello")} \cup {BlocksContent(bs) : bs \in BlockLists}}

\* Upper bound on the number of tool definitions of a source request.
MaxTools == 2

\* Mutant of has_thinking: any thinking object counts, whatever its type.
has_thinking_any_object(req) ==
    IF "thinking" \in DOMAIN req.extra
    THEN req.extra["thinking"].t = "object"
    ELSE FALSE

\* transform.rs:12-17
has_thinking(req) ==
    IF "thinking" \in DOMAIN req.extra
    THEN IF req.extra["thinking"].t = "object"
         THEN LET o == req.extra["thinking"].o
              IN  IF "type" \in DOMAIN o
                  THEN IF o["type"].t = "string"
                       THEN Some(o["type"].s) = Some("enabled")
                       ELSE FALSE
                  ELSE FALSE
         ELSE FALSE
    ELSE FALSE

\* Option::unwrap_or_else
UnwrapOrElse(option, other) == IF option /= None THEN option[1] ELSE other

\* Option::or_else
OrElse(option, other) == IF option /= None THEN option ELSE other

\* transform.rs:20-28
effective_model(req, config) ==
    IF has_thinking(req)
    THEN UnwrapOrElse(OrElse(config.reasoning_model, Some(req.model)), req.model)
    ELSE UnwrapOrElse(OrElse(config.completion_model, Some(req.model)), req.model)

SystemMessage(text) == Message("system", Some(TextContent(text)), None, None)

\* transform.rs:34-57
system_messages(system) ==
    IF system = None THEN << >>
    ELSE IF system[1].t = "single" THEN <<SystemMessage(system[1].text)>>
    ELSE [i \in DOMAIN system[1].messages |-> SystemMessage(system[1].messages[i].text)]

\* transform.rs:60-63
RECURSIVE converted_messages(_)
converted_messages(messages) ==
    IF messages = << >> THEN << >>
    ELSE convert_message(Head(messages)) \o converted_messages(Tail(messages))

\* transform.rs:69
NotBatchTool(tool) == tool.tool_type /= Some("BatchTool")

\* transform.rs:78-85
FunctionTool(tool) ==
    [tool_type |-> "function",
     function |-> [name |-> tool.name, description |-> tool.description,
                   parameters |-> clean_schema(tool.input_schema)]]

\* Mutant of convert_tools: an empty filtered list is sent as it is.
convert_tools_sends_empty_list(tools) ==
    IF tools = None THEN None
    ELSE LET filtered == SelectSeq(tools[1], NotBatchTool)
         IN  Some([i \in DOMAIN filtered |-> FunctionTool(filtered[i])])

\* transform.rs:66-89
convert_tools(tools) ==
    IF tools = None THEN None
    ELSE LET filtered == SelectSeq(tools[1], NotBatchTool)
         IN  IF filtered = << >> THEN None
             ELSE Some([i \in DOMAIN filtered |-> FunctionTool(filtered[i])])

\* transform.rs:7-102
anthropic_to_openai(req, config) ==
    Ok([model |-> effective_model(req, config),
        messages |-> system_messages(req.system) \o converted_messages(req.messages),
        max_tokens |-> Some(req.max_tokens),
        temperature |-> req.temperature,
        top_p |-> req.top_p,
        stop |-> req.stop_sequences,
        stream |-> req.stream,
        tools |-> convert_tools(req.tools),
        tool_choice |-> None])

\* The source requests and configurations given to anthropic_to_openai
ThinkingExtras ==
    {EmptyMap,
     "thinking" :> JObj("type" :> JStr("enabled")),
     "thinking" :> JObj(("type" :> JStr("enabled")) @@ ("budget_tokens" :> JNum(1024))),
     "thinking" :> JObj("type" :> JStr("disabled")),
     "thinking" :> JObj("type" :> JNum(1)),
     "thinking" :> JObj("budget_tokens" :> JNum(1024)),
     "thinking" :> JStr("enabled"),
     "metadata" :> JObj("type" :> JStr("enabled"))}

Configs ==
    {[reasoning_model |-> r, completion_model |-> c] :
        r \in {None, Some("reasoner")}, c \in {None, Some("completer")}}

SystemPrompts ==
    {None, Some([t |-> "single", text |-> "be brief"]),
     Some([t |-> "multiple", messages |-> <<[text |-> "one"], [text |-> "two"]>>])}

MessageLists ==
    {<<[role |-> "user", content |-> TextContent("hello")]>>,
     <<[role |-> "assistant",
        content |-> BlocksContent(<<TextBlock("a"),
                                    ToolUseBlock("t1", "f", JObj("x" :> JNum(1)))>>)],
       [role |-> "user",
        content |-> BlocksContent(<<ToolResultBlock("t1", "r1"), TextBlock("b")>>)]>>}

Tools ==
    {[name |-> "search", description |-> Some("finds"), input_schema |-> UriSchema,
      tool_type |-> None],
     [name |-> "fetch", description |-> None,
      input_schema |-> JObj("type" :> JStr("object")), tool_type |-> Some("custom")],
     [name |-> "batch", description |-> None,
      input_schema |-> JObj(EmptyMap), tool_type |-> Some("BatchTool")]}

ToolLists == {None} \cup {Some(ts) : ts \in UNION {[1..n -> Tools] : n \in 0..MaxTools}}

Requests ==
    {[model |-> "requested", extra |-> e, system |-> s, messages |-> ms, tools |-> ts,
      max_tokens |-> 100, temperature |-> None, top_p |-> None,
      stop_sequences |-> None, stream |-> Some(TRUE)] :
        e \in ThinkingExtras, s \in SystemPrompts, ms \in MessageLists,
        ts \in ToolLists}

----------------------------------------------------------------------------
(* Response translation                                                    *)

\* Upper bound on the number of choices of a target response.
MaxChoices == 2

\* serde_json::from_str::<Value>
from_str(text) ==
    IF "json" \in DOMAIN text THEN Ok(text.json) ELSE Err("syntax")

\* Mutant of first_choice: the last choice is taken.
first_choice_is_last(resp) ==
    IF resp.choices = << >> THEN Err("Transform") ELSE Ok(Last(resp.choices))

\* transform.rs:227-230
first_choice(resp) ==
    IF resp.choices = << >> THEN Err("Transform") ELSE Ok(resp.choices[1])

\* anthropic::ResponseContent::Text
ResponseText(text) == [type |-> "text", text |-> text]

\* transform.rs:250-258
ResponseToolUse(tool_call) ==
    LET parsed == from_str(tool_call.function.arguments)
    IN  [type |-> "tool_use", id |-> tool_call.id, name |-> tool_call.function.name,
         input |-> IF parsed.ok THEN parsed.value ELSE JObj(EmptyMap)]

\* Mutant of response_content: an empty text also makes a text block.
response_content_keeps_empty_text(choice) ==
    LET text == IF choice.message.content /= None
                THEN <<ResponseText(choice.message.content[1])>>
                ELSE << >>
        tools == IF choice.message.tool_calls /= None
                 THEN [i \in DOMAIN choice.message.tool_calls[1] |->
                          ResponseToolUse(choice.message.tool_calls[1][i])]
                 ELSE << >>
    IN  text \o tools

\* transform.rs:232-258
response_content(choice) ==
    LET text == IF choice.message.content /= None
                THEN IF choice.message.content[1] /= ""
                     THEN <<ResponseText(choice.message.content[1])>>
                     ELSE << >>
                ELSE << >>
        tools == IF choice.message.tool_calls /= None
                 THEN [i \in DOMAIN choice.message.tool_calls[1] |->
                          ResponseToolUse(choice.message.tool_calls[1][i])]
                 ELSE << >>
    IN  text \o tools

\* Mutant of response_stop_reason: an unknown finish reason is passed through.
response_stop_reason_passes_unknown(finish_reason) ==
    IF finish_reason = None THEN None
    ELSE CASE finish_reason[1] = "tool_calls" -> Some("tool_use")
           [] finish_reason[1] = "stop" -> Some("end_turn")
           [] finish_reason[1] = "length" -> Some("max_tokens")
           [] OTHER -> finish_reason

\* transform.rs:260-269
response_stop_reason(finish_reason) ==
    IF finish_reason = None THEN None
    ELSE CASE finish_reason[1] = "tool_calls" -> Some("tool_use")
           [] finish_reason[1] = "stop" -> Some("end_turn")
           [] finish_reason[1] = "length" -> Some("max_tokens")
           [] OTHER -> Some("end_turn")

\* transform.rs:224-283
openai_to_anthropic(resp) ==
    LET choice == first_choice(resp)
    IN  IF ~choice.ok THEN choice
        ELSE Ok([id |-> resp.id,
                 response_type |-> "message",
                 role |-> "assistant",
                 content |-> response_content(choice.value),
                 model |-> resp.model,
                 stop_reason |-> response_stop_reason(choice.value.finish_reason),
                 stop_sequence |-> None,
                 usage |-> [input_tokens |-> resp.usage.prompt_tokens,
                            output_tokens |-> resp.usage.completion_tokens]])

\* The target responses given to openai_to_anthropic
ResponseToolCall(id, name, arguments) ==
    [id |-> id, function |-> [name |-> name, arguments |-> arguments]]

ResponseToolCallLists ==
    {None, Some(<< >>),
     Some(<<ResponseToolCall("t1", "f", Serialized(JObj("x" :> JNum(1))))>>),
     Some(<<ResponseToolCall("t2", "g", Serialized(JNum(7))),
            ResponseToolCall("t1", "f", Serialized(JObj(EmptyMap)))>>),
     Some(<<ResponseToolCall("t1", "f", RawText("{x:")),
            ResponseToolCall("t2", "g", Serialized(JObj("y" :> JStr("z"))))>>),
     Some(<<ResponseToolCall("t3", "h", RawText(""))>>)}

ResponseChoice(content, tool_calls, finish_reason) ==
    [message |-> [content |-> content, tool_calls |-> tool_calls],
     finish_reason |-> finish_reason]

FirstChoices ==
    {ResponseChoice(c, tcs, fr) :
        c \in {None, Some(""), Some("hi")},
        tcs \in ResponseToolCallLists,
        fr \in {None, Some("stop"), Some("tool_calls"), Some("length"),
                Some("content_filter")}}

LaterChoices ==
    {ResponseChoice(Some("other"), None, Some("length")),
     ResponseChoice(None, Some(<<ResponseToolCall("t9", "k", RawText("?"))>>),
                    Some("tool_calls")),
     ResponseChoice(Some("hi"), None, Some("stop"))}

ChoiceLists ==
    {<< >>} \cup
    {<<c>> \o rest : c \in FirstChoices,
                     rest \in UNION {[1..n -> LaterChoices] : n \in 0..(MaxChoices - 1)}}

Responses ==
    {[id |-> "chatcmpl-1", model |-> "m", choices |-> cs,
      usage |-> [prompt_tokens |-> 3, completion_tokens |-> 5]] : cs \in ChoiceLists}

stream_vars ==
    <<buffer, message_id, current_model, content_index, tool_call_id,
      tool_call_name, tool_call_args, has_sent_message_start,
      current_block_type, events, running, frames, wire, pos, session_b>>

Called(fn, input, output) ==
    /\ call = NoCall
    /\ call' = [fn |-> fn, input |-> input, output |-> output]
    /\ UNCHANGED stream_vars

\* The call returns to its caller.
Return ==
    /\ call /= NoCall
    /\ call' = NoCall
    /\ UNCHANGED stream_vars

FinishReasons ==
    {None} \cup {Some(r) : r \in {"tool_calls", "stop", "length",
                                  "content_filter", "function_call", ""}}

\* proxy.rs:357 and transform.rs:286: a call of map_stop_reason
CallMapStopReason ==
    \E fr \in FinishReasons : Called("map_stop_reason", fr, map_stop_reason(fr))

\* transform.rs:83: a call of clean_schema
CallCleanSchema ==
    \E s \in Schemas : Called("clean_schema", s, clean_schema(s))

\* transform.rs:61: a call of convert_message
CallConvertMessage ==
    \E m \in SourceMessages : Called("convert_message", m, convert_message(m))

\* A call of anthropic_to_openai
CallAnthropicToOpenai ==
    \E req \in Requests, config \in Configs :
        Called("anthropic_to_openai", [req |-> req, config |-> config],
               anthropic_to_openai(req, config))

\* A call of openai_to_anthropic
CallOpenaiToAnthropic ==
    \E resp \in Responses : Called("openai_to_anthropic", resp, openai_to_anthropic(resp))

NextTransform ==
    \/ CallAnthropicToOpenai
    \/ CallOpenaiToAnthropic
    \/ CallMapStopReason
    \/ CallCleanSchema
    \/ CallConvertMessage
    \/ Return

SpecTransform == Init /\ [][NextTransform]_vars

----------------------------------------------------------------------------
StopReasons == {None, Some("tool_use"), Some("end_turn"), Some("max_tokens")}

(* C11: map_stop_reason maps tool_calls to tool_use, stop to end_turn,     *)
(* length to max_tokens, every other present finish reason to end_turn and *)
(* an absent finish reason to an absent stop reason, and never returns a   *)
(* value outside {tool_use, end_turn, max_tokens, absent}.                 *)
C11_StopReasonTable ==
    call.fn = "map_stop_reason" =>
        /\ call.output \in StopReasons
        /\ (call.input = None) = (call.output = None)
        /\ call.input = Some("tool_calls") => call.output = Some("tool_use")
        /\ call.input = Some("stop") => call.output = Some("end_turn")
        /\ call.input = Some("length") => call.output = Some("max_tokens")
        /\ call.input \notin {None, Some("tool_calls"), Some("stop"), Some("length")}
               => call.output = Some("end_turn")

\* An unknown finish reason was mapped.
C11_Witness ==
    /\ call.fn = "map_stop_reason"
    /\ call.input = Some("content_filter")
    /\ call.output = Some("end_turn")

----------------------------------------------------------------------------
\* Some object inside v, under any key, has a format key with value "uri".
RECURSIVE ContainsUriFormat(_)
ContainsUriFormat(v) ==
    /\ v.t = "object"
    /\ \/ "format" \in DOMAIN v.o /\ IsStr(v.o["format"], "uri")
       \/ \E k \in DOMAIN v.o : ContainsUriFormat(v.o[k])

(* C15: clean_schema is idempotent, clean_schema(clean_schema(s)) =        *)
(* clean_schema(s), and clean_schema(s) = s for every s that contains no   *)
(* format key with value "uri".                                            *)
C15_CleanSchemaIdempotent ==
    call.fn = "clean_schema" =>
        /\ clean_schema(call.output) = call.output
        /\ ~ContainsUriFormat(call.input) => call.output = call.input

\* A schema with a uri format under properties and under items was cleaned,
\* and a uri format under another keyword was kept.
C15_Witness ==
    /\ call.fn = "clean_schema"
    /\ call.input.t = "object"
    /\ {"properties", "items", "definitions"} \subseteq DOMAIN call.input.o
    /\ call.input.o["properties"].t = "object"
    /\ ContainsUriFormat(call.input.o["properties"])
    /\ ContainsUriFormat(call.input.o["items"])
    /\ ~ContainsUriFormat(call.output.o["properties"])
    /\ ~ContainsUriFormat(call.output.o["items"])
    /\ ContainsUriFormat(call.output)

----------------------------------------------------------------------------
(* Reading the result of convert_message                                   *)

IsToolResult(block) == block.type = "tool_result"

IsContentBlock(block) == block.type \in {"text", "image"}

IsToolUse(block) == block.type = "tool_use"

\* How many of the first i blocks satisfy Test.
CountUpTo(blocks, i, Test(_)) == Len(SelectSeq(SubSeq(blocks, 1, i), Test))

\* The content parts a target message carries.
PartsOf(message) ==
    IF message.content = None THEN << >>
    ELSE IF message.content[1].t = "text"
         THEN <<TextPart(message.content[1].text)>>
         ELSE message.content[1].parts

\* The place of the target message list that holds the translation of block
\* i: the index of the message and the index inside the message's list.
MessageIndexOf(blocks, i) ==
    IF IsToolResult(blocks[i]) THEN CountUpTo(blocks, i, IsToolResult)
    ELSE CountUpTo(blocks, Len(blocks), IsToolResult) + 1

InnerIndexOf(blocks, i) ==
    IF IsContentBlock(blocks[i]) THEN CountUpTo(blocks, i, IsContentBlock)
    ELSE IF IsToolUse(blocks[i]) THEN CountUpTo(blocks, i, IsToolUse)
    ELSE 1

\* The target message list out holds the translation of block i at that place.
HoldsTranslation(out, blocks, i) ==
    LET m == MessageIndexOf(blocks, i)
        k == InnerIndexOf(blocks, i)
    IN  /\ m \in DOMAIN out
        /\ CASE IsToolResult(blocks[i]) -> out[m] = ToolMessage(blocks[i])
             [] blocks[i].type = "text" ->
                    k \in DOMAIN PartsOf(out[m])
                    /\ PartsOf(out[m])[k] = TextPart(blocks[i].text)
             [] blocks[i].type = "image" ->
                    k \in DOMAIN PartsOf(out[m])
                    /\ PartsOf(out[m])[k] = ImageUrlPart(blocks[i].source)
             [] OTHER ->
                    /\ out[m].tool_calls /= None
                    /\ k \in DOMAIN out[m].tool_calls[1]
                    /\ out[m].tool_calls[1][k] = ToolCallOf(blocks[i])

Translated(blocks) == {i \in DOMAIN blocks : blocks[i].type /= "thinking"}

(* C13: convert_message turns every tool_result block into exactly one     *)
(* standalone target message with role tool, content the result text and   *)
(* tool-call-id the referenced id; all tool messages of a source message   *)
(* appear, in block order, before the single aggregated message built from *)
(* its text, image and tool_use blocks.                                    *)
C13_ToolResultsStandaloneFirst ==
    (call.fn = "convert_message" /\ call.input.content.t = "blocks") =>
        LET blocks == call.input.content.blocks
            results == SelectSeq(blocks, IsToolResult)
            out == call.output
            n == Len(results)
        IN  /\ Len(out) \in {n, n + 1}
            /\ \A k \in 1..n :
                   out[k] = Message("tool", Some(TextContent(results[k].content)),
                                    None, Some(results[k].tool_use_id))
            /\ Len(out) = n + 1 =>
                   /\ out[n + 1].role = call.input.role
                   /\ out[n + 1].tool_call_id = None
                   /\ Len(PartsOf(out[n + 1]))
                        = Len(SelectSeq(blocks, IsContentBlock))
            /\ (Len(out) = n + 1)
                 = (\E i \in DOMAIN blocks :
                        IsContentBlock(blocks[i]) \/ IsToolUse(blocks[i]))

\* Text, then two tool results: two tool messages, then the aggregated message.
C13_Witness ==
    /\ call.fn = "convert_message"
    /\ call.input.content.t = "blocks"
    /\ Len(call.input.content.blocks) = 3
    /\ call.input.content.blocks[1].type = "text"
    /\ call.input.content.blocks[2] = ToolResultBlock("t2", "r2")
    /\ call.input.content.blocks[3] = ToolResultBlock("t1", "r1")
    /\ Len(call.output) = 3
    /\ call.output[1].tool_call_id = Some("t2")

(* C14: request translation never reorders content blocks: for any source  *)
(* message with block-sequence content and any two non-thinking blocks a   *)
(* and b with a before b, the translation of a does not come after the     *)
(* translation of b in the target message list.                            *)
C14_NeverReorders ==
    (call.fn = "convert_message" /\ call.input.content.t = "blocks") =>
        LET blocks == call.input.content.blocks
        IN  \A a, b \in Translated(blocks) :
                a < b => MessageIndexOf(blocks, a) <= MessageIndexOf(blocks, b)

(* C14 (amended): every non-thinking block is found translated at its      *)
(* place of the target message list; two tool_result blocks, two text or   *)
(* image blocks, and two tool_use blocks keep their order; and the message *)
(* of a tool_result block comes before the aggregated message that holds   *)
(* the text, image and tool_use blocks, wherever the tool_result block     *)
(* stood.                                                                  *)
C14_OrderWithinKinds ==
    (call.fn = "convert_message" /\ call.input.content.t = "blocks") =>
        LET blocks == call.input.content.blocks
            out == call.output
        IN  /\ \A i \in Translated(blocks) : HoldsTranslation(out, blocks, i)
            /\ \A a, b \in Translated(blocks) :
                   /\ (a < b /\ IsToolResult(blocks[a]) = IsToolResult(blocks[b])
                             /\ IsToolUse(blocks[a]) = IsToolUse(blocks[b])) =>
                          \/ MessageIndexOf(blocks, a) < MessageIndexOf(blocks, b)
                          \/ /\ MessageIndexOf(blocks, a) = MessageIndexOf(blocks, b)
                             /\ InnerIndexOf(blocks, a) < InnerIndexOf(blocks, b)
                   /\ (IsToolResult(blocks[a]) /\ ~IsToolResult(blocks[b])) =>
                          MessageIndexOf(blocks, a) < MessageIndexOf(blocks, b)

\* A tool_use block, then a text block, then a tool_result block: the tool
\* message comes first, the aggregated message holds the call and the text.
C14_Witness ==
    /\ call.fn = "convert_message"
    /\ call.input.content.t = "blocks"
    /\ Len(call.input.content.blocks) = 3
    /\ call.input.content.blocks[1].type = "tool_use"
    /\ call.input.content.blocks[2].type = "text"
    /\ call.input.content.blocks[3].type = "tool_result"
    /\ Len(call.output) = 2
    /\ call.output[1].role = "tool"
    /\ call.output[2].tool_calls /= None

(* C12: anthropic_to_openai selects the target model: if the extension map *)
(* has a thinking object whose type is "enabled", the model is             *)
(* reasoning_model when configured, else the request's model; otherwise it *)
(* is completion_model when configured, else the request's model.  With    *)
(* thinking enabled and a reasoning override set, the result is the        *)
(* override, never the request's own model or the completion override.     *)
C12_ModelSelection ==
    call.fn = "anthropic_to_openai" =>
        LET req == call.input.req
            config == call.input.config
            enabled == /\ "thinking" \in DOMAIN req.extra
                       /\ req.extra["thinking"].t = "object"
                       /\ "type" \in DOMAIN req.extra["thinking"].o
                       /\ req.extra["thinking"].o["type"] = JStr("enabled")
            override == IF enabled THEN config.reasoning_model
                        ELSE config.completion_model
        IN  /\ call.output.ok
            /\ call.output.value.model
                 = IF override /= None THEN override[1] ELSE req.model
            /\ (enabled /\ config.reasoning_model /= None) =>
                   /\ call.output.value.model = config.reasoning_model[1]
                   /\ call.output.value.model /= req.model
                   /\ Some(call.output.value.model) /= config.completion_model

\* Thinking enabled, both overrides configured.
C12_Witness ==
    /\ call.fn = "anthropic_to_openai"
    /\ "thinking" \in DOMAIN call.input.req.extra
    /\ call.input.req.extra["thinking"] = JObj("type" :> JStr("enabled"))
    /\ call.input.config.reasoning_model = Some("reasoner")
    /\ call.input.config.completion_model = Some("completer")
    /\ call.output.value.model = "reasoner"

(* C18: anthropic_to_openai drops every tool definition whose type tag is  *)
(* BatchTool and keeps all others in order; the output tools field is      *)
(* absent whenever no tool remains after filtering (tools absent, empty,   *)
(* or all excluded) and is never an empty list.                            *)
C18_BatchToolFiltered ==
    call.fn = "anthropic_to_openai" =>
        LET given == IF call.input.req.tools = None THEN << >>
                     ELSE call.input.req.tools[1]
            kept == SelectSeq(given, LAMBDA tool : tool.tool_type /= Some("BatchTool"))
            tools == call.output.value.tools
        IN  /\ tools /= Some(<< >>)
            /\ (kept = << >>) = (tools = None)
            /\ tools /= None =>
                   /\ Len(tools[1]) = Len(kept)
                   /\ \A i \in DOMAIN kept :
                          /\ tools[1][i].function.name = kept[i].name
                          /\ tools[1][i].function.description = kept[i].description
                          /\ tools[1][i].tool_type = "function"

\* Every tool of a non-empty list is excluded, and the tools field is absent.
C18_Witness ==
    /\ call.fn = "anthropic_to_openai"
    /\ call.input.req.tools /= None
    /\ Len(call.input.req.tools[1]) = 2
    /\ \A i \in 1..2 : call.input.req.tools[1][i].tool_type = Some("BatchTool")
    /\ call.output.value.tools = None

(* C16: openai_to_anthropic builds the content list from the first choice: *)
(* one text block with the identical text if the message text is present   *)
(* and non-empty, then one tool_use block per tool call in the original    *)
(* order with id and name copied and input the parsed argument string, or  *)
(* the empty object when the argument string is not valid JSON; a response *)
(* with one text choice, no tool calls and finish reason stop yields       *)
(* exactly one text block and stop reason end_turn.                        *)
C16_ResponseContent ==
    (call.fn = "openai_to_anthropic" /\ call.input.choices /= << >>) =>
        LET message == call.input.choices[1].message
            content == call.output.value.content
            has_text == message.content /= None /\ message.content /= Some("")
            calls == IF message.tool_calls = None THEN << >> ELSE message.tool_calls[1]
            shift == IF has_text THEN 1 ELSE 0
        IN  /\ call.output.ok
            /\ Len(content) = shift + Len(calls)
            /\ has_text => content[1] = [type |-> "text", text |-> message.content[1]]
            /\ \A i \in DOMAIN calls :
                   /\ content[shift + i].type = "tool_use"
                   /\ content[shift + i].id = calls[i].id
                   /\ content[shift + i].name = calls[i].function.name
                   /\ content[shift + i].input
                        = IF "json" \in DOMAIN calls[i].function.arguments
                          THEN calls[i].function.arguments.json
                          ELSE JObj(EmptyMap)
            /\ (Len(call.input.choices) = 1 /\ has_text /\ calls = << >>
                  /\ call.input.choices[1].finish_reason = Some("stop")) =>
                   /\ Len(content) = 1
                   /\ content[1].type = "text"
                   /\ call.output.value.stop_reason = Some("end_turn")

\* A text, then a tool call whose arguments are not JSON, then one whose are.
C16_Witness ==
    /\ call.fn = "openai_to_anthropic"
    /\ call.input.choices /= << >>
    /\ call.input.choices[1].message.content = Some("hi")
    /\ call.input.choices[1].message.tool_calls /= None
    /\ Len(call.input.choices[1].message.tool_calls[1]) = 2
    /\ call.input.choices[1].message.tool_calls[1][1].function.arguments = RawText("{x:")
    /\ Len(call.output.value.content) = 3
    /\ call.output.value.content[2].input = JObj(EmptyMap)
    /\ call.output.value.content[3].input = JObj("y" :> JStr("z"))

(* C17: openai_to_anthropic returns a Transform error and no response when *)
(* the target response has zero choices, and when it has one or more       *)
(* choices the result is computed from the first choice only: the later    *)
(* choices have no effect on the output.                                   *)
C17_FirstChoiceOnly ==
    call.fn = "openai_to_anthropic" =>
        IF call.input.choices = << >>
        THEN call.output = [ok |-> FALSE, error |-> "Transform"]
        ELSE /\ call.output.ok
             /\ call.output
                  = openai_to_anthropic(
                        [call.input EXCEPT !.choices = <<call.input.choices[1]>>])
             /\ call.output.value.stop_reason
                  \in {None, Some("tool_use"), Some("end_turn"), Some("max_tokens")}

\* Two choices that differ in text, tool calls and finish reason.
C17_Witness ==
    /\ call.fn = "openai_to_anthropic"
    /\ Len(call.input.choices) = 2
    /\ call.input.choices[1].message.content = Some("hi")
    /\ call.input.choices[1].finish_reason = Some("stop")
    /\ call.input.choices[2].message.content = None
    /\ call.input.choices[2].finish_reason = Some("tool_calls")
    /\ call.output.value.stop_reason = Some("end_turn")

\* No choices: the Transform error.
C17_WitnessNoChoices ==
    /\ call.fn = "openai_to_anthropic"
    /\ call.input.choices = << >>
    /\ ~call.output.ok

----------------------------------------------------------------------------
IsPrefix(s, t) == Len(s) <= Len(t) /\ SubSeq(t, 1, Len(s)) = s

(* C19: reassembler state is local to one streaming session: when two      *)
(* sessions run concurrently with their chunk arrivals interleaved in any  *)
(* order, each session emits exactly the event sequence it would emit if   *)
(* it ran alone on its own chunks, and holds the state it would hold.      *)
C19_SessionsIndependent ==
    /\ State = Replay(frames)
    /\ session_b.state = Replay(session_b.frames)

\* Both sessions have read two items or more and are in different messages.
C19_Witness ==
    /\ session_b.running
    /\ Len(frames) >= 2
    /\ Len(session_b.frames) >= 2
    /\ message_id = Some("m1")
    /\ session_b.state.message_id = Some("m2")
    /\ content_index /= session_b.state.content_index
    /\ events /= session_b.state.out

----------------------------------------------------------------------------
(* The steps of the reassembler, one claim per step                        *)

IsThinkingDelta(e) == IsDelta(e) /\ e.kind = "thinking_delta"

(* C21: when a chunk's delta carries a reasoning fragment and the open     *)
(* block is not thinking, a content_block_start of type thinking at the    *)
(* current index is emitted and the open block becomes thinking; then the  *)
(* thinking_delta is emitted at the current index, so every thinking_delta *)
(* is emitted while the open block is a thinking block: the last block     *)
(* event before it at its index is the start of a thinking block or a      *)
(* delta of one.                                                           *)
C21_ThinkingDeltaInThinkingBlock ==
    \A i \in DOMAIN events :
        IsThinkingDelta(events[i]) =>
            \E j \in 1..(i - 1) :
                /\ IsStart(events[j])
                /\ events[j].kind = "thinking"
                /\ events[j].index = events[i].index
                /\ \A k \in (j + 1)..(i - 1) :
                       ~IsStart(events[k]) /\ ~IsStop(events[k])

\* The step reads one more upstream item, a chunk.
ReadsChunk == Len(frames') = Len(frames) + 1 /\ Last(frames').kind = "chunk"

\* The events of the step start with message_start if it was not sent yet.
WithMessageStart ==
    IF has_sent_message_start \/ Last(frames').chunk.choices = << >> THEN events
    ELSE Append(events, MessageStartEvent(UnwrapOrDefault(message_id'),
                                          UnwrapOrDefault(current_model')))

tool_call_vars == <<tool_call_id, tool_call_name, tool_call_args>>

\* The chunk has a choice that carries a text fragment and nothing else.
IsTextOnly(chunk) ==
    /\ chunk.choices /= << >>
    /\ Head(chunk.choices).delta.reasoning = None
    /\ Head(chunk.choices).delta.content /= None
    /\ Head(chunk.choices).delta.tool_calls = None
    /\ Head(chunk.choices).finish_reason = None

(* C22: when a chunk's delta carries a non-empty text fragment and the     *)
(* open block is not text: if some block is open, content_block_stop for   *)
(* the current index is emitted and content_index increases by exactly     *)
(* one; then content_block_start of type text is emitted at the new        *)
(* current index and the open block becomes text; then the text_delta is   *)
(* emitted at that index.  When the open block is already text only the    *)
(* text_delta is emitted, and an empty text fragment emits nothing and     *)
(* changes no state.                                                       *)
C22_TextStep ==
    [][(ReadsChunk /\ IsTextOnly(Last(frames').chunk)) =>
         LET text == Head(Last(frames').chunk.choices).delta.content[1]
             index == IF current_block_type = None THEN content_index
                      ELSE content_index + 1
         IN  /\ UNCHANGED tool_call_vars
             /\ CASE text = << >> ->
                       /\ events' = WithMessageStart
                       /\ UNCHANGED <<content_index, current_block_type>>
                  [] text /= << >> /\ current_block_type = Some("text") ->
                       /\ events' = Append(WithMessageStart,
                                           ContentBlockDeltaEvent(content_index,
                                                                  "text_delta", text))
                       /\ UNCHANGED <<content_index, current_block_type>>
                  [] OTHER ->
                       /\ events' = WithMessageStart
                            \o (IF current_block_type = None THEN << >>
                                ELSE <<ContentBlockStopEvent(content_index)>>)
                            \o <<ContentBlockStartEvent(index, "text", "", ""),
                                 ContentBlockDeltaEvent(index, "text_delta", text)>>
                       /\ content_index' = index
                       /\ current_block_type' = Some("text")]_vars

\* A text fragment arrived while a block of another type was open.
C22_Witness ==
    /\ Len(frames) >= 2
    /\ Last(frames).kind = "chunk"
    /\ IsTextOnly(Last(frames).chunk)
    /\ Len(events) >= 4
    /\ IsStop(events[Len(events) - 2])
    /\ IsStart(events[Len(events) - 1])
    /\ events[Len(events) - 1].kind = "text"
    /\ events[Len(events) - 1].index = events[Len(events) - 2].index + 1
    /\ content_index = events[Len(events) - 1].index
    /\ Last(events).kind = "text_delta"

\* The chunk has a choice that carries the one tool-call fragment tc and
\* nothing else.
IsFragmentOnly(chunk, tc) ==
    /\ chunk.choices /= << >>
    /\ Head(chunk.choices).delta.reasoning = None
    /\ Head(chunk.choices).delta.content = None
    /\ Head(chunk.choices).delta.tool_calls = Some(<<tc>>)
    /\ Head(chunk.choices).finish_reason = None

\* What a fragment with an id emits first: the stop of the open block.
StopOfOpenBlock ==
    IF current_block_type = None THEN << >>
    ELSE <<ContentBlockStopEvent(content_index)>>

IndexAfterStop ==
    IF current_block_type = None THEN content_index ELSE content_index + 1

\* A fragment with an id closes the open block with one content_block_stop
\* and one increment, clears the argument buffer and records the id; a
\* fragment with an id and a name then starts the tool_use block.
IdFragmentClosesAndRecords ==
    [][/\ (ReadsChunk /\ IsFragmentOnly(Last(frames').chunk, IdOnly)) =>
             /\ events' = WithMessageStart \o StopOfOpenBlock
             /\ content_index' = IndexAfterStop
             /\ tool_call_id' = Some("t1")
             /\ tool_call_args' = << >>
       /\ (ReadsChunk /\ IsFragmentOnly(Last(frames').chunk, IdName)) =>
             /\ events' = WithMessageStart \o StopOfOpenBlock
                            \o <<ContentBlockStartEvent(IndexAfterStop, "tool_use",
                                                        "t1", "f")>>
             /\ content_index' = IndexAfterStop
             /\ current_block_type' = Some("tool_use")]_vars

(* C23: a tool-call fragment carrying an id closes the currently open      *)
(* block, if any, with exactly one content_block_stop at the current index *)
(* followed by an increment of content_index by one, clears the argument   *)
(* buffer and records the id; after this step no block is open until a     *)
(* fragment carrying a function name emits content_block_start of type     *)
(* tool_use at the current index with the recorded id.                     *)
C23_IdFragmentLeavesNoBlockOpen ==
    [][(ReadsChunk /\ IsFragmentOnly(Last(frames').chunk, IdOnly)) =>
          /\ events' = WithMessageStart \o StopOfOpenBlock
          /\ content_index' = IndexAfterStop
          /\ tool_call_id' = Some("t1")
          /\ tool_call_args' = << >>
          /\ current_block_type' = None]_vars

IsMessageDelta(e) == e.type = "message_delta"

\* The first choice of the chunk carries a finish reason.
HasFinishReason(chunk) ==
    chunk.choices /= << >> /\ Head(chunk.choices).finish_reason /= None

\* The events the step added.
NewEvents == SubSeq(events', Len(events) + 1, Len(events'))

\* When the first choice carries a finish reason, the open block, if any,
\* is closed with content_block_stop at the current index with no increment,
\* and then one message_delta is emitted, the last event of the chunk, with
\* the mapped stop reason, stop_sequence null, and the completion-token
\* count when the chunk carried usage.
FinishStepClosesAndReports ==
    [][(ReadsChunk /\ HasFinishReason(Last(frames').chunk)) =>
         LET chunk == Last(frames').chunk
             n == Len(NewEvents)
         IN  /\ n >= 1
             /\ IsMessageDelta(NewEvents[n])
             /\ \A i \in 1..(n - 1) : ~IsMessageDelta(NewEvents[i])
             /\ Some(NewEvents[n].kind)
                  = map_stop_reason(Head(chunk.choices).finish_reason)
             /\ "stop_sequence" \in NewEvents[n].nulls
             /\ chunk.usage /= None => NewEvents[n].usage = chunk.usage
             /\ current_block_type' /= None =>
                    /\ n >= 2
                    /\ NewEvents[n - 1] = ContentBlockStopEvent(content_index')
             /\ current_block_type' = None =>
                    \A i \in 1..n : ~IsStop(NewEvents[i])]_vars

(* C24: when the first choice of a chunk carries a finish reason, after    *)
(* all content events of that chunk the open block, if any, is closed with *)
(* content_block_stop at the current index without incrementing            *)
(* content_index, and then exactly one message_delta is emitted whose      *)
(* stop_reason is map_stop_reason of the finish reason, whose              *)
(* stop_sequence is null, and which carries usage.output_tokens equal to   *)
(* the chunk's completion-token count if and only if the chunk carried     *)
(* usage: there is no usage field otherwise.                               *)
C24_MessageDeltaUsage ==
    [][(ReadsChunk /\ HasFinishReason(Last(frames').chunk)) =>
         LET chunk == Last(frames').chunk
             delta == Last(NewEvents)
         IN  /\ IsMessageDelta(delta)
             /\ Some(delta.kind) = map_stop_reason(Head(chunk.choices).finish_reason)
             /\ "stop_sequence" \in delta.nulls
             /\ current_block_type' /= None =>
                    NewEvents[Len(NewEvents) - 1] = ContentBlockStopEvent(content_index')
             /\ IF chunk.usage /= None
                THEN delta.usage = chunk.usage
                ELSE delta.usage = None /\ "usage" \notin delta.nulls]_vars

reassembler_vars ==
    <<message_id, current_model, content_index, tool_call_id, tool_call_name,
      tool_call_args, has_sent_message_start, current_block_type>>

(* C25: emission of message_stop on [DONE] is not gated on any reassembler *)
(* state: it is emitted when no message_start was sent, when no block was  *)
(* ever opened, when a block is still open, and when no finish reason or   *)
(* message_delta was seen, and in none of these cases does [DONE] emit any *)
(* other event or change the reassembler state.                            *)
C25_DoneOnlyEmitsMessageStop ==
    [][(Len(frames') = Len(frames) + 1 /\ Last(frames') = DoneLine) =>
          /\ events' = Append(events, MessageStopEvent)
          /\ UNCHANGED reassembler_vars
          /\ running']_vars

\* [DONE] came while a block was open and no message_delta had been sent.
C25_Witness ==
    /\ Len(frames) >= 2
    /\ Last(frames) = DoneLine
    /\ has_sent_message_start
    /\ current_block_type /= None
    /\ \A i \in DOMAIN events : ~IsMessageDelta(events[i]) /\ ~IsStop(events[i])
    /\ Last(events) = MessageStopEvent

\* [DONE] came first: no message_start was sent and no block was opened.
C25_WitnessDoneFirst ==
    /\ frames = <<DoneLine>>
    /\ ~has_sent_message_start
    /\ events = <<MessageStopEvent>>

----------------------------------------------------------------------------
(* The aggregated message                                                  *)

PartOf(block) ==
    IF block.type = "text" THEN TextPart(block.text) ELSE ImageUrlPart(block.source)

\* The content parts and the tool calls pending after the block loop.
PendingParts(blocks) ==
    LET bs == SelectSeq(blocks, IsContentBlock)
    IN  [i \in DOMAIN bs |-> PartOf(bs[i])]

PendingToolCalls(blocks) ==
    LET bs == SelectSeq(blocks, IsToolUse)
    IN  [i \in DOMAIN bs |-> ToolCallOf(bs[i])]

\* What the two statements of the claim share: one aggregated message with
\* the role of the source message, after the tool messages, if a part or a
\* tool call is pending, none otherwise, with the given content.
AggregatedMessageIs(content_of(_)) ==
    (call.fn = "convert_message" /\ call.input.content.t = "blocks") =>
        LET blocks == call.input.content.blocks
            parts == PendingParts(blocks)
            calls == PendingToolCalls(blocks)
            n == Len(SelectSeq(blocks, IsToolResult))
            out == call.output
        IN  /\ \A i \in 1..n : i \in DOMAIN out /\ out[i].role = "tool"
            /\ IF parts = << >> /\ calls = << >>
               THEN Len(out) = n
               ELSE /\ Len(out) = n + 1
                    /\ out[n + 1].role = call.input.role
                    /\ out[n + 1].tool_call_id = None
                    /\ out[n + 1].content = content_of(parts)
                    /\ out[n + 1].tool_calls
                         = IF calls = << >> THEN None ELSE Some(calls)

(* C26: after the block loop of convert_message, exactly one aggregated    *)
(* message with the source message's role is emitted if the pending        *)
(* content-part list or the pending tool-call list is non-empty, and none  *)
(* otherwise; its content is a plain string if exactly one part is pending *)
(* and that part is text, and otherwise the structured content-part list   *)
(* in block order; its tool-call list is attached, in block order, if and  *)
(* only if it is non-empty.                                                *)
C26_AggregatedMessage ==
    AggregatedMessageIs(
        LAMBDA parts : IF Len(parts) = 1 /\ parts[1].type = "text"
                       THEN Some(TextContent(parts[1].text))
                       ELSE Some(PartsContent(parts)))

(* C26 (amended): as C26, but the content is absent when no part is        *)
(* pending (the message then only carries tool calls), a plain string if   *)
(* exactly one part is pending and that part is text, and the structured   *)
(* content-part list in block order otherwise.                             *)
C26_AggregatedMessageContentOptional ==
    AggregatedMessageIs(
        LAMBDA parts : IF parts = << >> THEN None
                       ELSE IF Len(parts) = 1 /\ parts[1].type = "text"
                            THEN Some(TextContent(parts[1].text))
                            ELSE Some(PartsContent(parts)))

\* Only a tool_use block and a tool_result block: the aggregated message has
\* the tool call and no content.
C26_Witness ==
    /\ call.fn = "convert_message"
    /\ call.input.content.t = "blocks"
    /\ Len(call.input.content.blocks) = 2
    /\ call.input.content.blocks[1].type = "tool_use"
    /\ call.input.content.blocks[2].type = "tool_result"
    /\ Len(call.output) = 2
    /\ call.output[2].content = None
    /\ call.output[2].tool_calls /= None

\* One text block: the content is collapsed to a plain string.
C26_WitnessCollapsed ==
    /\ call.fn = "convert_message"
    /\ call.input.content.t = "blocks"
    /\ Len(call.input.content.blocks) = 1
    /\ call.input.content.blocks[1].type = "text"
    /\ call.output[1].content = Some(TextContent(call.input.content.blocks[1].text))

----------------------------------------------------------------------------
(* What clean_schema removes and what it keeps                             *)

HasUriFormat(schema) ==
    /\ schema.t = "object"
    /\ "format" \in DOMAIN schema.o
    /\ schema.o["format"] = JStr("uri")

\* Some object reached from schema through properties values and items has
\* format "uri".
RECURSIVE ReachesUriFormat(_)
ReachesUriFormat(schema) ==
    /\ schema.t = "object"
    /\ \/ HasUriFormat(schema)
       \/ /\ "properties" \in DOMAIN schema.o
          /\ schema.o["properties"].t = "object"
          /\ \E p \in DOMAIN schema.o["properties"].o :
                 ReachesUriFormat(schema.o["properties"].o[p])
       \/ /\ "items" \in DOMAIN schema.o
          /\ ReachesUriFormat(schema.o["items"])

\* cleaned is schema with the key format removed from the objects that are
\* reached through properties values and items and have format "uri", and
\* with nothing else changed.
RECURSIVE OnlyUriFormatsRemoved(_, _)
OnlyUriFormatsRemoved(schema, cleaned) ==
    IF schema.t /= "object" THEN cleaned = schema
    ELSE /\ cleaned.t = "object"
         /\ DOMAIN cleaned.o
              = DOMAIN schema.o \ (IF HasUriFormat(schema) THEN {"format"} ELSE {})
         /\ \A k \in DOMAIN cleaned.o :
                CASE k = "properties" /\ schema.o[k].t = "object" ->
                         /\ cleaned.o[k].t = "object"
                         /\ DOMAIN cleaned.o[k].o = DOMAIN schema.o[k].o
                         /\ \A p \in DOMAIN schema.o[k].o :
                                OnlyUriFormatsRemoved(schema.o[k].o[p], cleaned.o[k].o[p])
                  [] k = "items" -> OnlyUriFormatsRemoved(schema.o[k], cleaned.o[k])
                  [] OTHER -> cleaned.o[k] = schema.o[k]

(* C27: clean_schema removes a format key exactly when its value is the    *)
(* string "uri", at the top-level object and at every object reached       *)
(* through any chain of properties values and items; after it returns, no  *)
(* such reachable object has format "uri"; every other key and value is    *)
(* unchanged, and a non-object input is returned unchanged.                *)
C27_CleanSchemaRemovesUriFormats ==
    call.fn = "clean_schema" =>
        /\ OnlyUriFormatsRemoved(call.input, call.output)
        /\ ~ReachesUriFormat(call.output)
        /\ call.input.t /= "object" => call.output = call.input

\* A uri format three objects deep is removed, one under `definitions` and a
\* format of another value are kept.
C27_Witness ==
    /\ call.fn = "clean_schema"
    /\ call.input.t = "object"
    /\ DOMAIN call.input.o = {"format", "properties", "items", "definitions"}
    /\ call.input.o["format"] = JStr("date")
    /\ call.input.o["items"] = UriSchema
    /\ call.input.o["properties"].t = "object"
    /\ DOMAIN call.output.o = {"format", "properties", "items", "definitions"}
    /\ call.output.o["items"] = JObj(EmptyMap)
    /\ call.output.o["definitions"] = UriSchema

(* C28: the stop reason produced by openai_to_anthropic equals the stop    *)
(* reason produced by map_stop_reason, which the Stream Reassembler uses,  *)
(* for every finish reason including absent and unknown values: the two    *)
(* paths never disagree on the same finish reason.                         *)
C28_StopReasonPathsAgree ==
    /\ (call.fn = "openai_to_anthropic" /\ call.input.choices /= << >>) =>
           call.output.value.stop_reason
             = map_stop_reason(call.input.choices[1].finish_reason)
    /\ call.fn = "map_stop_reason" =>
           call.output = response_stop_reason(call.input)

\* A finish reason that is not in the table, on the non-streaming path.
C28_Witness ==
    /\ call.fn = "openai_to_anthropic"
    /\ call.input.choices /= << >>
    /\ call.input.choices[1].finish_reason = Some("content_filter")
    /\ call.output.value.stop_reason = Some("end_turn")

(* C29: content blocks are well bracketed for any sequence of upstream     *)
(* chunks: every content_block_stop carries an index for which a           *)
(* content_block_start was emitted earlier, and no index receives more     *)
(* than one content_block_stop.                                            *)
C29_StopsWellBracketed ==
    \A i \in DOMAIN events :
        IsStop(events[i]) =>
            /\ \E j \in 1..(i - 1) :
                   IsStart(events[j]) /\ events[j].index = events[i].index
            /\ \A k \in DOMAIN events :
                   (IsStop(events[k]) /\ events[k].index = events[i].index) => k = i

\* The two halves of C29, each on its own.
EveryStopHasAStart ==
    \A i \in DOMAIN events :
        IsStop(events[i]) =>
            \E j \in 1..(i - 1) :
                IsStart(events[j]) /\ events[j].index = events[i].index

NoIndexStoppedTwice ==
    \A i, k \in DOMAIN events :
        (IsStop(events[i]) /\ IsStop(events[k]) /\ events[k].index = events[i].index)
            => k = i

IsChunkLine(item) == item.kind = "chunk"

(* C30: a successfully parsed chunk whose choices list is empty emits no   *)
(* event at all, even when it carries usage; its only effect is to fix     *)
(* message_id and model if they were not yet set, so the later             *)
(* message_start carries the id and model of the first parsed chunk        *)
(* whether or not that chunk had a choice.  Only the first choice of a     *)
(* chunk is ever processed.                                                *)
C30_EmptyChoicesOnlyFixIdAndModel ==
    /\ [](\A i \in DOMAIN events :
            events[i].type = "message_start" =>
                LET first == Head(SelectSeq(frames, IsChunkLine)).chunk
                IN  events[i] = MessageStartEvent(first.id, first.model))
    /\ [][ReadsChunk =>
            LET chunk == Last(frames').chunk
            IN  IF chunk.choices = << >>
                THEN /\ events' = events
                     /\ message_id' = IF message_id = None THEN Some(chunk.id)
                                      ELSE message_id
                     /\ current_model' = IF current_model = None THEN Some(chunk.model)
                                         ELSE current_model
                     /\ UNCHANGED <<content_index, tool_call_vars,
                                    has_sent_message_start, current_block_type>>
                ELSE State' = ProcessChunk(State, [chunk EXCEPT
                                                     !.choices = <<Head(@)>>])]_vars

\* The first chunk had no choice and carried usage; the message_start sent
\* for a later chunk carries the id and the model of the first.
C30_Witness ==
    /\ Len(frames) >= 2
    /\ frames[1] = ChunkLine(Chunk("m2", "g2", << >>, Some(7)))
    /\ frames[2].kind = "chunk"
    /\ frames[2].chunk.id = "m1"
    /\ frames[2].chunk.choices /= << >>
    /\ events /= << >>
    /\ events[1] = MessageStartEvent("m2", "g2")

\* A chunk with two choices: the events are those of the first choice.
C30_WitnessTwoChoices ==
    /\ Len(frames) = 1
    /\ frames[1].kind = "chunk"
    /\ Len(frames[1].chunk.choices) = 2
    /\ Len(events) = 3
    /\ current_block_type = Some("text")

----------------------------------------------------------------------------
(* The end of the upstream bytes                                           *)

\* The positions of the bytes w where a line starts that lies in a frame
\* whose blank line is in w.
TerminatedLines(w) ==
    {p \in DOMAIN w :
        /\ w[p] /= "NL"
        /\ p = 1 \/ w[p - 1] = "NL"
        /\ \E q \in p..(Len(w) - 1) : w[q] = "NL" /\ w[q + 1] = "NL"}

TerminatedDoneLines(w) ==
    {p \in TerminatedLines(w) : w[p] = "D" /\ w[p + 1] = "!" /\ w[p + 2] = "NL"}

TerminatedChunkLines(w) ==
    {p \in TerminatedLines(w) : w[p] = "D" /\ w[p + 1] = "{"}

IsMessageStop(e) == e.type = "message_stop"

NoReadError == \A p \in DOMAIN frames : frames[p].kind /= "error"

(* C31: when the upstream byte stream ends without error, the session ends *)
(* without emitting any further event, and bytes left in the buffer after  *)
(* the last blank-line separator are discarded unprocessed: a final frame  *)
(* that is not followed by a blank line produces no event, so message_stop *)
(* is emitted only if the [DONE] frame was terminated by a blank line.     *)
C31_UnterminatedFrameIsDiscarded ==
    /\ [][(frames' = Append(frames, EndItem)) =>
             /\ events' = events
             /\ ~running'
             /\ UNCHANGED reassembler_vars]_vars
    /\ [](NoReadError =>
             LET received == SubSeq(wire, 1, pos)
             IN  /\ Len(SelectSeq(events, IsMessageStop))
                      = Cardinality(TerminatedDoneLines(received))
                 /\ Len(SelectSeq(events, IsDelta))
                      = Cardinality(TerminatedChunkLines(received))
                 /\ FindBlankLine(buffer) = 0)

\* The stream ended after a chunk frame and a [DONE] line with no blank
\* line: the events of the chunk, no message_stop, the line left in the
\* buffer.
C31_Witness ==
    /\ wire = <<"D", "{", "a", "}", "NL", "NL", "D", "!">>
    /\ frames = <<EndItem>>
    /\ ~running
    /\ buffer = <<"D", "!">>
    /\ Len(events) = 3
    /\ \A i \in DOMAIN events : ~IsMessageStop(events[i])

====
